---- MODULE Spec2Model ----
(***************************************************************************)
(* A model of the aspasia subtitle library: the nom parsers of the five    *)
(* subtitle dialects, the cross-format tag converters, the renderers and   *)
(* the format detector.                                                    *)
(*                                                                         *)
(* A text is a sequence of characters; a character is a one-character      *)
(* string, except EAcute, which stands for a two-byte UTF-8 character.     *)
(* A nom parser applied to the text s at position i (1-based index of the  *)
(* next character) yields a record [ok, pos, val]: ok tells whether the    *)
(* parser succeeded, pos is the position after the consumed input and val  *)
(* the parsed value.                                                       *)
(***************************************************************************)
EXTENDS Integers, Sequences, FiniteSets, TLC

VARIABLES
    mode,          \* which entry point of the library this behaviour runs
    pc,            \* control point of the running operation
    src,           \* how the input was put together (tokens, lines, records)
    input,         \* the text handed to the operation
    lines,         \* reader.lines(): the lines not yet consumed
    queue,         \* the streaming parsers' queue of unparsed text
    events,        \* the events parsed so far
    is_streaming,  \* the streaming parsers' loop flag
    state,         \* parse_ass: the current section; parse_srt, parse_vtt: the branch the last iteration took
    out            \* the result of the operation

vars == <<mode, pc, src, input, lines, queue, events, is_streaming, state, out>>

----------------------------------------------------------------------------
(* Bounds of the model                                                     *)

MaxPayload == 7
MaxTokens == 3
MaxRecords == 3
MaxLines == 3
MaxUnits == 3

----------------------------------------------------------------------------
(* Characters and texts                                                    *)

EAcute == "U+00E9"

Utf8Len(c) == IF c = EAcute THEN 2 ELSE 1

RECURSIVE ByteLen(_)
ByteLen(s) == IF s = <<>> THEN 0 ELSE Utf8Len(Head(s)) + ByteLen(Tail(s))

\* the characters of a string literal
Chars(str) == [k \in 1..Len(str) |-> SubSeq(str, k, k)]

\* Option
None == [some |-> FALSE]

Some(v) == [some |-> TRUE, val |-> v]

BoundedSeq(S, n) == UNION {[1..k -> S] : k \in 0..n}

RECURSIVE Flatten(_)
Flatten(ss) == IF ss = <<>> THEN <<>> ELSE Head(ss) \o Flatten(Tail(ss))

Min(S) == CHOOSE x \in S : \A y \in S : x <= y

\* a parser result: failure, abort of the process, or success
Fail == [ok |-> FALSE, panic |-> FALSE]

Panicked == [ok |-> FALSE, panic |-> TRUE]

Ok(p, v) == [ok |-> TRUE, panic |-> FALSE, pos |-> p, val |-> v]

\* nom alt: the first alternative that does not fail (a panic ends the process)
RECURSIVE Alt(_)
Alt(rs) ==
    IF rs = <<>> THEN Fail
    ELSE IF Head(rs).ok \/ Head(rs).panic THEN Head(rs)
    ELSE Alt(Tail(rs))

\* sequencing: e is evaluated once and its value handed to F
Then(e, F(_)) == CHOOSE r \in {F(x) : x \in {e}} : TRUE

\* nom value(v, p)
Value(v, r) == IF r.ok THEN Ok(r.pos, v) ELSE r

Sub(s, i, j) == IF j <= i THEN <<>> ELSE SubSeq(s, i, j - 1)

Rest(s, i) == Sub(s, i, Len(s) + 1)

TagAt(t, s, i) ==
    /\ i + Len(t) - 1 <= Len(s)
    /\ \A k \in 1..Len(t) : s[i + k - 1] = t[k]

\* position of the first occurrence of t in s at or after i, 0 when there is none
Find(t, s, i) ==
    LET J == {j \in i..(Len(s) - Len(t) + 1) : TagAt(t, s, j)}
    IN  IF J = {} THEN 0 ELSE Min(J)

\* nom tag
Tag(t, s, i) == IF TagAt(t, s, i) THEN Ok(i + Len(t), t) ELSE Fail

\* nom take_until: succeeds, possibly with the empty text, when t occurs
TakeUntil(t, s, i) ==
    LET j == Find(t, s, i)
    IN  IF j = 0 THEN Fail ELSE Ok(j, Sub(s, i, j))

\* nom delimited(tag(open), take_until(close), tag(close))
Delimited(open, close, s, i) ==
    IF ~TagAt(open, s, i) THEN Fail
    ELSE LET j == Find(close, s, i + Len(open))
         IN  IF j = 0 THEN Fail
             ELSE Ok(j + Len(close), Sub(s, i + Len(open), j))

\* nom rest
RestP(s, i) == Ok(Len(s) + 1, Rest(s, i))

\* str::replace
RECURSIVE Replace(_, _, _)
Replace(s, pat, rep) ==
    IF s = <<>> THEN <<>>
    ELSE IF TagAt(pat, s, 1) THEN rep \o Replace(Rest(s, Len(pat) + 1), pat, rep)
    ELSE <<Head(s)>> \o Replace(Tail(s), pat, rep)

----------------------------------------------------------------------------
(* Numbers, blanks and lines                                               *)

Digits == {"0", "1", "2", "3", "4", "5", "6", "7", "8", "9"}

DigitVal(c) ==
    CASE c = "0" -> 0 [] c = "1" -> 1 [] c = "2" -> 2 [] c = "3" -> 3
      [] c = "4" -> 4 [] c = "5" -> 5 [] c = "6" -> 6 [] c = "7" -> 7
      [] c = "8" -> 8 [] c = "9" -> 9

DigitChar(d) == <<"0", "1", "2", "3", "4", "5", "6", "7", "8", "9">>[d + 1]

RECURSIVE DigitsEnd(_, _)
DigitsEnd(s, i) ==
    IF i > Len(s) \/ s[i] \notin Digits THEN i ELSE DigitsEnd(s, i + 1)

RECURSIVE NumVal(_, _, _, _)
NumVal(s, i, j, acc) ==
    IF i >= j THEN acc ELSE NumVal(s, i + 1, j, 10 * acc + DigitVal(s[i]))

\* nom character::complete::u32 (the inputs of the model stay below 2^31)
U32(s, i) ==
    LET j == DigitsEnd(s, i)
    IN  IF j = i THEN Fail ELSE Ok(j, NumVal(s, i, j, 0))

\* nom character::complete::i64: an optional sign, then at least one digit
I64(s, i) ==
    LET signed == i <= Len(s) /\ s[i] \in {"+", "-"}
        d == IF signed THEN i + 1 ELSE i
        j == DigitsEnd(s, d)
    IN  IF j = d THEN Fail
        ELSE Ok(j, IF signed /\ s[i] = "-" THEN 0 - NumVal(s, d, j, 0)
                   ELSE NumVal(s, d, j, 0))

\* i64 and usize Display
RECURSIVE NatToText(_)
NatToText(n) ==
    IF n < 10 THEN <<DigitChar(n)>> ELSE NatToText(n \div 10) \o <<DigitChar(n % 10)>>

IntToText(n) == IF n < 0 THEN <<"-">> \o NatToText(0 - n) ELSE NatToText(n)

\* nom space0: the end of the run of spaces and tabs
RECURSIVE Space0(_, _)
Space0(s, i) ==
    IF i > Len(s) \/ s[i] \notin {" ", "\t"} THEN i ELSE Space0(s, i + 1)

\* nom multispace0: the end of the run of spaces, tabs and line breaks
RECURSIVE Multispace0(_, _)
Multispace0(s, i) ==
    IF i > Len(s) \/ s[i] \notin {" ", "\t", "\n", "\r"} THEN i
    ELSE Multispace0(s, i + 1)

\* nom line_ending: the position after "\n" or "\r\n", 0 when there is none
LineEnding(s, i) ==
    IF TagAt(<<"\n">>, s, i) THEN i + 1
    ELSE IF TagAt(<<"\r", "\n">>, s, i) THEN i + 2
    ELSE 0

\* char(c)
Char(c, s, i) == i <= Len(s) /\ s[i] = c

Lower(c) ==
    CASE c = "A" -> "a" [] c = "B" -> "b" [] c = "C" -> "c" [] c = "D" -> "d"
      [] c = "E" -> "e" [] c = "F" -> "f" [] c = "G" -> "g" [] c = "H" -> "h"
      [] c = "I" -> "i" [] c = "J" -> "j" [] c = "K" -> "k" [] c = "L" -> "l"
      [] c = "M" -> "m" [] c = "N" -> "n" [] c = "O" -> "o" [] c = "P" -> "p"
      [] c = "Q" -> "q" [] c = "R" -> "r" [] c = "S" -> "s" [] c = "T" -> "t"
      [] c = "U" -> "u" [] c = "V" -> "v" [] c = "W" -> "w" [] c = "X" -> "x"
      [] c = "Y" -> "y" [] c = "Z" -> "z" [] OTHER -> c

\* tag_no_case
TagNoCaseAt(t, s, i) ==
    /\ i + Len(t) - 1 <= Len(s)
    /\ \A k \in 1..Len(t) : Lower(s[i + k - 1]) = Lower(t[k])

\* BufRead::lines: the text is split at "\n", a "\r" before it is dropped,
\* and no line is produced for the empty text after the last "\n"
RECURSIVE Lines(_)
Lines(s) ==
    IF s = <<>> THEN <<>>
    ELSE LET j == Find(<<"\n">>, s, 1)
             line == IF j = 0 THEN s ELSE Sub(s, 1, j)
             bare == IF line # <<>> /\ j # 0 /\ line[Len(line)] = "\r"
                     THEN Sub(line, 1, Len(line)) ELSE line
         IN  <<bare>> \o (IF j = 0 THEN <<>> ELSE Lines(Rest(s, j + 1)))

\* join("\n")
RECURSIVE Join(_, _)
Join(ls, sep) ==
    IF ls = <<>> THEN <<>>
    ELSE IF Len(ls) = 1 THEN ls[1]
    ELSE ls[1] \o sep \o Join(Tail(ls), sep)

\* parsing.rs: many_till(anychar, alt((pair(line_ending, line_ending),
\* pair(multispace0, eof)))): the text up to the first blank line, or up to
\* the blanks that end the input
RECURSIVE BlockEnd(_, _)
BlockEnd(s, k) ==
    IF LineEnding(s, k) # 0 /\ LineEnding(s, LineEnding(s, k)) # 0
    THEN [at |-> k, pos |-> LineEnding(s, LineEnding(s, k))]
    ELSE IF Multispace0(s, k) > Len(s) THEN [at |-> k, pos |-> Len(s) + 1]
    ELSE BlockEnd(s, k + 1)

take_until_end_of_block(s, i) ==
    LET b == BlockEnd(s, i) IN Ok(b.pos, Sub(s, i, b.at))

----------------------------------------------------------------------------
(* Literals of the tag syntaxes                                            *)

BS == "\\"
NL == "\n"

AssB1 == <<"{", BS, "b", "1", "}">>
AssB0 == <<"{", BS, "b", "0", "}">>
AssI1 == <<"{", BS, "i", "1", "}">>
AssI0 == <<"{", BS, "i", "0", "}">>
AssU1 == <<"{", BS, "u", "1", "}">>
AssU0 == <<"{", BS, "u", "0", "}">>
AssNewline == <<BS, "N">>
AssColourOpen == <<"{", BS, "c", "&", "H">>
AssColour1Open == <<"{", BS, "1", "c", "&", "H">>
AssColourClose == <<"&", "}">>

HtmlB == <<"<", "b", ">">>
HtmlBEnd == <<"<", "/", "b", ">">>
HtmlI == <<"<", "i", ">">>
HtmlIEnd == <<"<", "/", "i", ">">>
HtmlU == <<"<", "u", ">">>
HtmlUEnd == <<"<", "/", "u", ">">>
FontOpen == <<"<", "f", "o", "n", "t", " ", "c", "o", "l", "o", "r", "=", "\"", "#">>
FontClose == <<"\"", ">">>
FontEnd == <<"<", "/", "f", "o", "n", "t", ">">>

BrB == <<"{", "b", "}">>
BrBEnd == <<"{", "/", "b", "}">>
BrI == <<"{", "i", "}">>
BrIEnd == <<"{", "/", "i", "}">>
BrU == <<"{", "u", "}">>
BrUEnd == <<"{", "/", "u", "}">>

----------------------------------------------------------------------------
(* substation/common/convert.rs                                            *)

\* many1(preceded(char('\\'), alt((take_until("\\"), rest)))) applied to the
\* inside of a brace group, each code written back as {\code}
RECURSIVE SplitCodes(_, _)
SplitCodes(inner, k) ==
    IF k > Len(inner) \/ inner[k] # BS THEN <<>>
    ELSE LET j == Find(<<BS>>, inner, k + 1)
             code == IF j = 0 THEN Rest(inner, k + 1) ELSE Sub(inner, k + 1, j)
         IN  <<"{", BS>> \o code \o <<"}">>
                 \o (IF j = 0 THEN <<>> ELSE SplitCodes(inner, j))

split_tag(s, i) ==
    LET d == Delimited(<<"{">>, <<"}">>, s, i)
    IN  IF ~d.ok THEN Fail
        ELSE IF d.val = <<>> \/ d.val[1] # BS THEN Fail
        ELSE Ok(d.pos, SplitCodes(d.val, 1))

split_formatting_tags_alt(s, i) ==
    Alt(<<split_tag(s, i), TakeUntil(<<"{">>, s, i), RestP(s, i)>>)

\* many_till(alt(...), eof): a parser that succeeds without consuming input
\* makes many_till fail
RECURSIVE split_formatting_tags_loop(_, _, _)
split_formatting_tags_loop(s, i, acc) ==
    IF i > Len(s) THEN Ok(i, acc)
    ELSE LET r == split_formatting_tags_alt(s, i)
         IN  IF ~r.ok THEN r
             ELSE IF r.pos = i THEN Fail
             ELSE split_formatting_tags_loop(s, r.pos, acc \o r.val)

split_formatting_tags(s) == split_formatting_tags_loop(s, 1, <<>>)

discard_tag(s, i) == Value(<<>>, Delimited(<<"{">>, <<"}">>, s, i))

\* format!("{input:06}") of a string: the 0 flag is ignored for strings, the
\* text is left-aligned and padded with spaces up to six characters
PadSix(t) == t \o [k \in 1..(IF Len(t) < 6 THEN 6 - Len(t) ELSE 0) |-> " "]

\* the byte offsets at which a character of t starts, and the end of t
RECURSIVE CharBoundaries(_, _)
CharBoundaries(t, at) ==
    IF t = <<>> THEN {at}
    ELSE {at} \cup CharBoundaries(Tail(t), at + Utf8Len(Head(t)))

\* the characters of t that lie in the byte range a..b-1
RECURSIVE CharsInBytes(_, _, _, _)
CharsInBytes(t, at, a, b) ==
    IF t = <<>> THEN <<>>
    ELSE (IF a <= at /\ at < b THEN <<Head(t)>> ELSE <<>>)
             \o CharsInBytes(Tail(t), at + Utf8Len(Head(t)), a, b)

\* &s[a..b]: panics when a or b is not a character boundary of s
ByteSliceOk(t, a, b) ==
    /\ b <= ByteLen(t)
    /\ a \in CharBoundaries(t, 0)
    /\ b \in CharBoundaries(t, 0)

HexReorder(t) ==
    LET p == PadSix(t)
    IN  IF ByteSliceOk(p, 4, 6) /\ ByteSliceOk(p, 2, 4) /\ ByteSliceOk(p, 0, 2)
        THEN [panic |-> FALSE,
              str |-> CharsInBytes(p, 0, 4, 6) \o CharsInBytes(p, 0, 2, 4)
                          \o CharsInBytes(p, 0, 0, 2)]
        ELSE [panic |-> TRUE, str |-> <<>>]

convert_hex(t) == HexReorder(t)

FontColorOf(d) ==
    IF ~d.ok THEN d
    ELSE LET h == convert_hex(d.val)
         IN  IF h.panic THEN Panicked
             ELSE Ok(d.pos, FontOpen \o h.str \o FontClose)

convert_font_color_tag(s, i) ==
    Alt(<<FontColorOf(Delimited(AssColour1Open, AssColourClose, s, i)),
          FontColorOf(Delimited(AssColourOpen, AssColourClose, s, i))>>)

----------------------------------------------------------------------------
(* substation/ass/convert.rs                                               *)

convert_to_html_tag(s, i) ==
    Alt(<<Value(HtmlB, Tag(AssB1, s, i)),
          Value(HtmlBEnd, Tag(AssB0, s, i)),
          Value(HtmlI, Tag(AssI1, s, i)),
          Value(HtmlIEnd, Tag(AssI0, s, i)),
          Value(HtmlU, Tag(AssU1, s, i)),
          Value(HtmlUEnd, Tag(AssU0, s, i))>>)

ass_to_srt_alt(s, i) ==
    Alt(<<convert_to_html_tag(s, i),
          convert_font_color_tag(s, i),
          discard_tag(s, i),
          TakeUntil(<<"{">>, s, i),
          RestP(s, i)>>)

RECURSIVE ass_to_srt_loop(_, _, _)
ass_to_srt_loop(s, i, acc) ==
    IF i > Len(s) THEN Ok(i, acc)
    ELSE LET r == ass_to_srt_alt(s, i)
         IN  IF ~r.ok THEN r
             ELSE IF r.pos = i THEN Fail
             ELSE ass_to_srt_loop(s, r.pos, acc \o r.val)

ass_convert_to_srt_formatting(s) == ass_to_srt_loop(s, 1, <<>>)

----------------------------------------------------------------------------
(* subrip/convert.rs                                                       *)

discard_html_tag(s, i) == Value(<<>>, Delimited(<<"<">>, <<">">>, s, i))

discard_bracket_tag(s, i) == Value(<<>>, Delimited(<<"{">>, <<"}">>, s, i))

convert_to_ssa_tag(s, i) ==
    Alt(<<Value(AssB1, Tag(HtmlB, s, i)),
          Value(AssB0, Tag(HtmlBEnd, s, i)),
          Value(AssB1, Tag(BrB, s, i)),
          Value(AssB0, Tag(BrBEnd, s, i)),
          Value(AssI1, Tag(HtmlI, s, i)),
          Value(AssI0, Tag(HtmlIEnd, s, i)),
          Value(AssI1, Tag(BrI, s, i)),
          Value(AssI0, Tag(BrIEnd, s, i))>>)

convert_to_ass_tag(s, i) ==
    Alt(<<convert_to_ssa_tag(s, i),
          Value(AssU1, Tag(HtmlU, s, i)),
          Value(AssU0, Tag(HtmlUEnd, s, i)),
          Value(AssU1, Tag(BrU, s, i)),
          Value(AssU0, Tag(BrUEnd, s, i))>>)

convert_to_vtt_tag(s, i) ==
    Alt(<<Value(HtmlB, Tag(BrB, s, i)),
          Value(HtmlBEnd, Tag(BrBEnd, s, i)),
          Value(HtmlI, Tag(BrI, s, i)),
          Value(HtmlIEnd, Tag(BrIEnd, s, i)),
          Value(HtmlU, Tag(BrU, s, i)),
          Value(HtmlUEnd, Tag(BrUEnd, s, i))>>)

\* keep_html_tags without its last alternative
keep_html_tags_mutant(s, i) ==
    Alt(<<Tag(HtmlB, s, i), Tag(HtmlBEnd, s, i), Tag(HtmlI, s, i),
          Tag(HtmlIEnd, s, i), Tag(HtmlU, s, i)>>)

keep_html_tags(s, i) ==
    Alt(<<Tag(HtmlB, s, i), Tag(HtmlBEnd, s, i), Tag(HtmlI, s, i),
          Tag(HtmlIEnd, s, i), Tag(HtmlU, s, i), Tag(HtmlUEnd, s, i)>>)

correct_colour_hex(t) == HexReorder(t)

replace_font_color_tag(s, i) ==
    LET d == Delimited(FontOpen, FontClose, s, i)
    IN  IF ~d.ok THEN d
        ELSE LET h == correct_colour_hex(d.val)
             IN  IF h.panic THEN Panicked
                 ELSE Ok(d.pos, AssColourOpen \o h.str \o AssColourClose)

\* the end of the run of characters other than '<' and '{' that starts at i
RECURSIVE PlainRunEnd(_, _)
PlainRunEnd(s, i) ==
    IF i > Len(s) \/ s[i] \in {"<", "{"} THEN i ELSE PlainRunEnd(s, i + 1)

\* take_while(|c| c != '<' && c != '{'): succeeds on the empty run too
TakeWhilePlain(s, i) == Ok(PlainRunEnd(s, i), Sub(s, i, PlainRunEnd(s, i)))

\* take_while1(|c| c != '<' && c != '{')
TakeWhile1Plain(s, i) ==
    IF PlainRunEnd(s, i) = i THEN Fail ELSE TakeWhilePlain(s, i)

srt_to_ass_alt(s, i) ==
    Alt(<<convert_to_ass_tag(s, i),
          replace_font_color_tag(s, i),
          discard_html_tag(s, i),
          discard_bracket_tag(s, i),
          TakeWhilePlain(s, i),
          RestP(s, i)>>)

RECURSIVE srt_to_ass_loop(_, _, _)
srt_to_ass_loop(s, i, acc) ==
    IF i > Len(s) THEN Ok(i, acc)
    ELSE LET r == srt_to_ass_alt(s, i)
         IN  IF ~r.ok THEN r
             ELSE IF r.pos = i THEN Fail
             ELSE srt_to_ass_loop(s, r.pos, acc \o r.val)

subrip_convert_to_ass_formatting(s) == srt_to_ass_loop(s, 1, <<>>)

srt_to_vtt_alt(s, i) ==
    Alt(<<convert_to_vtt_tag(s, i),
          keep_html_tags(s, i),
          discard_html_tag(s, i),
          discard_bracket_tag(s, i),
          TakeWhile1Plain(s, i),
          RestP(s, i)>>)

RECURSIVE srt_to_vtt_loop(_, _, _)
srt_to_vtt_loop(s, i, acc) ==
    IF i > Len(s) THEN Ok(i, acc)
    ELSE LET r == srt_to_vtt_alt(s, i)
         IN  IF ~r.ok THEN r
             ELSE IF r.pos = i THEN Fail
             ELSE srt_to_vtt_loop(s, r.pos, acc \o r.val)

subrip_convert_to_vtt_formatting(s) == srt_to_vtt_loop(s, 1, <<>>)

----------------------------------------------------------------------------
(* The per-event text conversions of the From impls                        *)

\* a conversion either aborts the process or returns the text of the event
Aborted == [panic |-> TRUE, text |-> <<>>]

Returned(t) == [panic |-> FALSE, text |-> t]

\* impl From<&AssSubtitle> for SubRipSubtitle, the text of one event
AssToSrtText(t) ==
    LET text == Replace(t, AssNewline, <<NL>>)
        separated == split_formatting_tags(text)
    IN  IF separated.panic THEN Aborted
        ELSE IF ~separated.ok THEN Returned(text)
        ELSE LET converted == ass_convert_to_srt_formatting(separated.val)
             IN  IF converted.panic THEN Aborted
                 ELSE IF converted.ok THEN Returned(converted.val)
                 ELSE Returned(text)

\* impl From<&SubRipSubtitle> for AssSubtitle, the text of one event
SrtToAssText(t) ==
    LET text == Replace(t, <<NL>>, AssNewline)
        converted == subrip_convert_to_ass_formatting(text)
    IN  IF converted.panic THEN Aborted
        ELSE IF converted.ok THEN Returned(converted.val)
        ELSE Returned(text)

\* impl From<&SubRipSubtitle> for WebVttSubtitle, the text of one event
SrtToVttText(t) ==
    LET result == subrip_convert_to_vtt_formatting(t)
    IN  IF result.panic THEN Aborted
        ELSE IF result.ok THEN Returned(result.val)
        ELSE Returned(t)

----------------------------------------------------------------------------
(* timing.rs: single-precision arithmetic of the frame conversions         *)
(*                                                                         *)
(* An f32 is [neg, m, e] with value m * 2^e and m = 0 or 2^23 <= m < 2^24  *)
(* (the values of the model are far from the subnormal and the infinite    *)
(* range). Every operation rounds to the nearest such value, ties to the   *)
(* even mantissa, as IEEE 754 does.                                        *)

RECURSIVE Pow2(_)
Pow2(k) == IF k = 0 THEN 1 ELSE 2 * Pow2(k - 1)

F32Zero == [neg |-> FALSE, m |-> 0, e |-> 0]

\* the number of low bits to drop from q so that fewer than 2^24 remain
RECURSIVE ExcessBits(_)
ExcessBits(q) == IF q < Pow2(24) THEN 0 ELSE 1 + ExcessBits(q \div 2)

Carry(m, e) == IF m = Pow2(24) THEN [m |-> Pow2(23), e |-> e + 1] ELSE [m |-> m, e |-> e]

\* long division below the binary point until the mantissa has 24 bits, then
\* the rounding decided by the remainder r of the division by d
RECURSIVE GrowMantissa(_, _, _, _)
GrowMantissa(m, r, d, e) ==
    IF m >= Pow2(23)
    THEN LET up == 2 * r > d \/ (2 * r = d /\ m % 2 = 1)
         IN  Carry(IF up THEN m + 1 ELSE m, e)
    ELSE IF 2 * r >= d THEN GrowMantissa(2 * m + 1, 2 * r - d, d, e - 1)
    ELSE GrowMantissa(2 * m, 2 * r, d, e - 1)

\* the f32 nearest to n / d * 2^e0, for 0 <= n and 0 < d
RoundRatio(n, d, e0) ==
    LET q == n \div d
        r == n % d
        k == ExcessBits(q)
    IN  IF n = 0 THEN [m |-> 0, e |-> 0]
        ELSE IF k > 0
        THEN LET m0 == q \div Pow2(k)
                 low == q % Pow2(k)
                 half == Pow2(k - 1)
                 up == low > half \/ (low = half /\ (r > 0 \/ m0 % 2 = 1))
             IN  Carry(IF up THEN m0 + 1 ELSE m0, e0 + k)
        ELSE GrowMantissa(q, r, d, e0)

Signed(neg, v) == [neg |-> neg /\ v.m # 0, m |-> v.m, e |-> v.e]

Abs(n) == IF n < 0 THEN 0 - n ELSE n

\* (n as f32)
I64ToF32(n) == Signed(n < 0, RoundRatio(Abs(n), 1, 0))

\* ((n * 1000) as f32): n * 1000 = (n * 125) * 2^3, and a factor 2^3 only
\* moves the exponent, so that the product need not be formed
I64Times1000ToF32(n) == Signed(n < 0, RoundRatio(Abs(n) * 125, 1, 3))

\* x * c and x / c for a rate or constant c that is a small whole number
F32MulWhole(x, c) == Signed(x.neg, RoundRatio(x.m * c, 1, x.e))

F32DivWhole(x, c) == Signed(x.neg, RoundRatio(x.m, c, x.e))

\* f32::round (half away from zero) followed by `as i64`
F32RoundToI64(x) ==
    LET mag == IF x.e >= 0 THEN x.m * Pow2(x.e)
               ELSE IF 0 - x.e > 25 THEN 0
               ELSE LET p == Pow2(0 - x.e)
                    IN  (x.m \div p) + (IF 2 * (x.m % p) >= p THEN 1 ELSE 0)
    IN  IF x.neg THEN 0 - mag ELSE mag

\* Frame(((i64::from(moment) as f32) * framerate / 1000.0).round() as i64)
moment_to_frame(moment, framerate) ==
    F32RoundToI64(F32DivWhole(F32MulWhole(I64ToF32(moment), framerate), 1000))

\* Moment(((frame.0 * 1000) as f32 / framerate).round() as i64)
frame_to_moment(frame, framerate) ==
    F32RoundToI64(F32DivWhole(I64Times1000ToF32(frame), framerate))

DefaultFramerate == 24

----------------------------------------------------------------------------
(* microdvd/parse.rs, microdvd/data.rs                                     *)

parse_frame(s, i) ==
    IF ~Char("{", s, i) THEN Fail
    ELSE LET n == I64(s, i + 1)
         IN  IF n.ok /\ Char("}", s, n.pos) THEN Ok(n.pos + 1, n.val) ELSE Fail

parse_frame_interval(s, i) ==
    LET a == parse_frame(s, i)
    IN  IF ~a.ok THEN Fail
        ELSE LET b == parse_frame(s, a.pos)
             IN  IF ~b.ok THEN Fail ELSE Ok(b.pos, <<a.val, b.val>>)

parse_microdvd_line(s, i) ==
    LET f == parse_frame_interval(s, i)
    IN  IF ~f.ok THEN Fail
        ELSE LET t == Alt(<<TakeUntil(<<"\n">>, s, f.pos), RestP(s, f.pos)>>)
             IN  Ok(t.pos, [start |-> f.val[1], end |-> f.val[2], text |-> t.val])

\* TimedMicroDvdSubtitle::from_raw
from_raw(raw, framerate) ==
    [k \in DOMAIN raw |->
        [start |-> frame_to_moment(raw[k].start, framerate),
         end |-> frame_to_moment(raw[k].end, framerate),
         text |-> raw[k].text]]

\* impl Display for TimedMicroDvdSubtitle
MicroDvdDisplay(evs, framerate) ==
    Flatten([k \in DOMAIN evs |->
        <<"{">> \o IntToText(moment_to_frame(evs[k].start, framerate)) \o <<"}">>
            \o <<"{">> \o IntToText(moment_to_frame(evs[k].end, framerate)) \o <<"}">>
            \o evs[k].text \o <<"\n">>])

----------------------------------------------------------------------------
(* Conversion of one event text: the state machine                         *)

Idle ==
    /\ lines = <<>>
    /\ queue = <<>>
    /\ events = <<>>
    /\ is_streaming = FALSE
    /\ state = "None"

PayloadChars == {"F", "2", "0", EAcute}

HexDigits == {"0", "1", "2", "3", "4", "5", "6", "7", "8", "9",
              "A", "B", "C", "D", "E", "F", "a", "b", "c", "d", "e", "f"}

ColourTagText(tag, payload) ==
    CASE tag = "c" -> AssColourOpen \o payload \o AssColourClose
      [] tag = "1c" -> AssColour1Open \o payload \o AssColourClose
      [] tag = "font" -> FontOpen \o payload \o FontClose

\* an event whose text is one colour tag with an arbitrary payload
InitColour ==
    /\ mode = "convert"
    /\ pc = "start"
    /\ \E tag \in {"c", "1c", "font"}, payload \in BoundedSeq(PayloadChars, MaxPayload) :
          /\ src = [format |-> IF tag = "font" THEN "srt" ELSE "ass",
                    tag |-> tag, payload |-> payload, toks |-> <<>>]
          /\ input = ColourTagText(tag, payload)
    /\ out = Returned(<<>>)
    /\ Idle

AssBundle == <<"{", BS, "b", "1", BS, "i", "1", "}">>
AssFs == <<"{", BS, "f", "s", "1", "4", "}">>
AssColourTag == AssColourOpen \o <<"F", "F", "2", "0", "2", "2">> \o AssColourClose
AssColour1Tag == AssColour1Open \o <<"F", "F", "2", "0", "2", "2">> \o AssColourClose
AssFsColour ==
    <<"{", BS, "f", "s", "1", "4", BS, "1", "c", "&", "H",
      "F", "F", "2", "0", "2", "2", "&", "}">>
AssNote == <<"{", "x", "}">>
FontTag == FontOpen \o <<"2", "2", "2", "0", "F", "F">> \o FontClose
HtmlOther == <<"<", "c", ">">>
BrOther == <<"{", "x", "}">>
BrAn8 == <<"{", BS, "a", "n", "8", "}">>

AssTokens ==
    {AssB1, AssB0, AssI1, AssI0, AssU1, AssU0, AssBundle, AssFs, AssColourTag,
     AssColour1Tag, AssFsColour, AssNote, <<"a">>, <<"}">>, <<" ">>}

SrtTokens ==
    {BrB, BrBEnd, BrI, BrIEnd, BrU, BrUEnd, HtmlB, HtmlBEnd, HtmlI, HtmlIEnd,
     HtmlU, HtmlUEnd, FontTag, FontEnd, HtmlOther, BrOther, BrAn8,
     <<"a">>, <<">">>, <<"}">>}

\* an event whose text is a sequence of tags and plain characters
InitConvert ==
    /\ mode = "convert"
    /\ pc = "start"
    /\ \E f \in {"ass", "srt"} :
          \E toks \in BoundedSeq(IF f = "ass" THEN AssTokens ELSE SrtTokens, MaxTokens) :
              /\ src = [format |-> f, tag |-> "none", payload |-> <<>>, toks |-> toks]
              /\ input = Flatten(toks)
    /\ out = Returned(<<>>)
    /\ Idle

Convert(op, result) ==
    /\ mode = "convert"
    /\ pc = "start"
    /\ mode' = op
    /\ out' = result
    /\ pc' = IF result.panic THEN "panic" ELSE "done"
    /\ UNCHANGED <<src, input, lines, queue, events, is_streaming, state>>

ConvertAssToSrt == src.format = "ass" /\ Convert("ass_to_srt", AssToSrtText(input))

ConvertSrtToAss == src.format = "srt" /\ Convert("srt_to_ass", SrtToAssText(input))

ConvertSrtToVtt == src.format = "srt" /\ Convert("srt_to_vtt", SrtToVttText(input))

NextConvert == ConvertAssToSrt \/ ConvertSrtToAss \/ ConvertSrtToVtt

SpecColour == InitColour /\ [][NextConvert]_vars

SpecConvert == InitConvert /\ [][NextConvert]_vars

----------------------------------------------------------------------------
(* Properties of the tag converters                                        *)

Range(f) == {f[k] : k \in DOMAIN f}

MapTokens(M(_), toks) == Flatten([k \in DOMAIN toks |-> M(toks[k])])

\* C1: no conversion aborts the process: converting an event whose colour
\* tag carries an arbitrary payload completes and returns a text.
C1_NoAbort == pc # "panic" /\ ~out.panic

ZeroPadSix(p) == [k \in 1..(6 - Len(p)) |-> "0"] \o p

SwapPairs(z) == <<z[5], z[6], z[3], z[4], z[1], z[2]>>

\* C10: a colour payload of at most six hexadecimal digits is zero-padded to
\* six digits and its first and third pairs of digits are exchanged, in both
\* directions.
C10_ZeroPadSwap ==
    (/\ pc = "done"
     /\ src.tag # "none"
     /\ mode \in {"ass_to_srt", "srt_to_ass"}
     /\ Len(src.payload) <= 6
     /\ Range(src.payload) \subseteq HexDigits)
        => out.text = IF mode = "ass_to_srt"
                      THEN FontOpen \o SwapPairs(ZeroPadSix(src.payload)) \o FontClose
                      ELSE AssColourOpen \o SwapPairs(ZeroPadSix(src.payload))
                               \o AssColourClose

AssToSrtExpected(tok) ==
    CASE tok = AssB1 -> HtmlB
      [] tok = AssB0 -> HtmlBEnd
      [] tok = AssI1 -> HtmlI
      [] tok = AssI0 -> HtmlIEnd
      [] tok = AssU1 -> HtmlU
      [] tok = AssU0 -> HtmlUEnd
      [] tok = AssBundle -> HtmlB \o HtmlI
      [] tok \in {AssColourTag, AssColour1Tag, AssFsColour} -> FontTag
      [] tok \in {AssFs, AssNote} -> <<>>
      [] OTHER -> tok

\* C8: ASS to SubRip splits every brace group into one group per code, maps
\* the bold, italic, underline and colour codes to their HTML tags, removes
\* every other brace-delimited tag and keeps the characters outside braces.
C8_AssToSrt ==
    (pc = "done" /\ mode = "ass_to_srt" /\ src.tag = "none")
        => out.text = MapTokens(AssToSrtExpected, src.toks)

SrtToVttExpected(tok) ==
    CASE tok = BrB -> HtmlB
      [] tok = BrBEnd -> HtmlBEnd
      [] tok = BrI -> HtmlI
      [] tok = BrIEnd -> HtmlIEnd
      [] tok = BrU -> HtmlU
      [] tok = BrUEnd -> HtmlUEnd
      [] tok \in {FontTag, FontEnd, HtmlOther, BrOther, BrAn8} -> <<>>
      [] OTHER -> tok

SrtToAssExpected(tok) ==
    CASE tok \in {BrB, HtmlB} -> AssB1
      [] tok \in {BrBEnd, HtmlBEnd} -> AssB0
      [] tok \in {BrI, HtmlI} -> AssI1
      [] tok \in {BrIEnd, HtmlIEnd} -> AssI0
      [] tok \in {BrU, HtmlU} -> AssU1
      [] tok \in {BrUEnd, HtmlUEnd} -> AssU0
      [] tok = FontTag -> AssColourTag
      [] tok \in {FontEnd, HtmlOther, BrOther, BrAn8} -> <<>>
      [] OTHER -> tok

\* C9: SubRip to WebVTT rewrites the bracket markers to HTML tags, keeps the
\* six HTML tags and removes every other tag; SubRip to ASS maps both marker
\* syntaxes to the override codes, the font colour tag to the colour
\* override with the pairs reordered, and removes every other tag.
C9_SrtToVttAndAss ==
    (pc = "done" /\ src.tag = "none")
        => /\ mode = "srt_to_vtt" => out.text = MapTokens(SrtToVttExpected, src.toks)
           /\ mode = "srt_to_ass" => out.text = MapTokens(SrtToAssExpected, src.toks)

C9_Witness ==
    /\ pc = "done"
    /\ mode = "srt_to_ass"
    /\ src.tag = "none"
    /\ {FontTag, FontEnd, BrU} \subseteq Range(src.toks)
    /\ out.text = MapTokens(SrtToAssExpected, src.toks)

----------------------------------------------------------------------------
(* MicroDVD: TimedMicroDvdSubtitle::from_str, then to_string               *)

\* a line of the input as the model puts it together: its text, whether it
\* is a well-formed record, and the record it stands for
GoodLine(text, rec) == [good |-> TRUE, text |-> text, rec |-> rec]

BadLine(text) == [good |-> FALSE, text |-> text, rec |-> <<>>]

\* the text of the input: every line ended by a newline
LinesText(ls) == Flatten([k \in DOMAIN ls |-> ls[k].text \o <<"\n">>])

GoodRecords(ls) ==
    LET g == SelectSeq(ls, LAMBDA l : l.good) IN [k \in DOMAIN g |-> g[k].rec]

FrameLits ==
    {[txt |-> <<"1">>, val |-> 1],
     [txt |-> <<"4", "5", "0">>, val |-> 450],
     [txt |-> <<"3", "2", "2", "1", "4", "1", "3">>, val |-> 3221413]}

MicroDvdGoodLines ==
    {GoodLine(<<"{">> \o a.txt \o <<"}", "{">> \o b.txt \o <<"}">> \o Chars("One"),
              [start |-> a.val, end |-> b.val, text |-> Chars("One")]) :
        a \in FrameLits, b \in FrameLits}
    \cup {GoodLine(Chars("{1}{450}a|b"),
                   [start |-> 1, end |-> 450, text |-> Chars("a|b")])}

MicroDvdBadLines ==
    {BadLine(Chars("{10}invalid")),
     BadLine(<<>>),
     BadLine(Chars("x{1}{2}a")),
     BadLine(Chars("{1} {2}a")),
     BadLine(Chars("{a}{2}a"))}

InitMicroDvd ==
    /\ mode = "microdvd"
    /\ pc = "loop"
    /\ src \in BoundedSeq(MicroDvdGoodLines \cup MicroDvdBadLines, MaxRecords)
    /\ input = LinesText(src)
    /\ lines = Lines(input)
    /\ events = <<>>
    /\ queue = <<>>
    /\ is_streaming = FALSE
    /\ state = "None"
    /\ out = <<>>

\* parse_microdvd: one iteration of the loop over reader.lines()
MicroDvdLine ==
    /\ mode = "microdvd"
    /\ pc = "loop"
    /\ lines # <<>>
    /\ LET r == parse_microdvd_line(Head(lines), 1)
       IN  events' = IF r.ok THEN Append(events, r.val) ELSE events
    /\ lines' = Tail(lines)
    /\ UNCHANGED <<mode, pc, src, input, queue, is_streaming, state, out>>

\* the end of the loop and TimedMicroDvdSubtitle::from_raw(.., None)
MicroDvdFromRaw ==
    /\ mode = "microdvd"
    /\ pc = "loop"
    /\ lines = <<>>
    /\ events' = from_raw(events, DefaultFramerate)
    /\ pc' = "parsed"
    /\ UNCHANGED <<mode, src, input, lines, queue, is_streaming, state, out>>

\* impl Display for TimedMicroDvdSubtitle
MicroDvdRender ==
    /\ mode = "microdvd"
    /\ pc = "parsed"
    /\ out' = MicroDvdDisplay(events, DefaultFramerate)
    /\ pc' = "done"
    /\ UNCHANGED <<mode, src, input, lines, queue, events, is_streaming, state>>

NextMicroDvd == MicroDvdLine \/ MicroDvdFromRaw \/ MicroDvdRender

SpecMicroDvd == InitMicroDvd /\ [][NextMicroDvd]_vars

\* C6: MicroDVD text round-trips at the default 24 fps: a frame converted to
\* a Moment and back is the same frame, so that parsing lines {start}{end}text
\* and rendering them yields exactly the input text.
C6_MicroDvdRoundTrip ==
    (mode = "microdvd" /\ pc = "done" /\ \A k \in DOMAIN src : src[k].good)
        => out = input

----------------------------------------------------------------------------
(* substation/common/parse.rs, substation/ass/parse.rs,                    *)
(* substation/ssa/parse.rs                                                 *)

\* Moment::from_timestamp
from_timestamp(h, m, s, ms) == h * 3600000 + m * 60000 + s * 1000 + ms

\* SubStation timestamp h:mm:ss.cc between optional blanks
substation_parse_timestamp(s, i) ==
    LET h == I64(s, Space0(s, i))
        m == I64(s, h.pos + 1)
        sec == I64(s, m.pos + 1)
        cs == I64(s, sec.pos + 1)
    IN  IF /\ h.ok /\ Char(":", s, h.pos)
           /\ m.ok /\ Char(":", s, m.pos)
           /\ sec.ok /\ Char(".", s, sec.pos)
           /\ cs.ok
        THEN Ok(Space0(s, cs.pos), from_timestamp(h.val, m.val, sec.val, cs.val * 10))
        ELSE Fail

parse_reverse_bool(s, i) ==
    Alt(<<Value(TRUE, Tag(<<"-", "1">>, s, i)), Value(FALSE, Tag(<<"0">>, s, i))>>)

\* ssa/parse.rs
parse_bool(s, i) ==
    Alt(<<Value(TRUE, Tag(<<"1">>, s, i)), Value(FALSE, Tag(<<"0">>, s, i))>>)

\* tag_no_case as a parser
TagNoCase(t, s, i) ==
    IF TagNoCaseAt(t, s, i) THEN Ok(i + Len(t), Sub(s, i, i + Len(t))) ELSE Fail

\* nom double: the text of a decimal number with an optional fraction and
\* exponent (an exponent mark without digits is a hard failure), or one of
\* nan, inf, infinity; the value is kept as the text that was recognised
Double(s, i) ==
    LET d == IF i <= Len(s) /\ s[i] \in {"+", "-"} THEN i + 1 ELSE i
        a == DigitsEnd(s, d)
        m == IF a > d
             THEN (IF Char(".", s, a) THEN DigitsEnd(s, a + 1) ELSE a)
             ELSE IF Char(".", s, d) /\ DigitsEnd(s, d + 1) > d + 1
             THEN DigitsEnd(s, d + 1)
             ELSE 0
        x == IF m + 1 <= Len(s) /\ s[m + 1] \in {"+", "-"} THEN m + 2 ELSE m + 1
    IN  IF m = 0
        THEN Alt(<<TagNoCase(Chars("nan"), s, i), TagNoCase(Chars("inf"), s, i),
                   TagNoCase(Chars("infinity"), s, i)>>)
        ELSE IF m <= Len(s) /\ s[m] \in {"e", "E"}
        THEN (IF DigitsEnd(s, x) > x
              THEN Ok(DigitsEnd(s, x), Sub(s, i, DigitsEnd(s, x)))
              ELSE Fail)
        ELSE Ok(m, Sub(s, i, m))

\* one field of a record line, by the parser that reads it
Field(p, s, i) ==
    CASE p = "i64" -> I64(s, i)
      [] p = "timestamp" -> substation_parse_timestamp(s, i)
      [] p = "opt_text" ->
            LET t == TakeUntil(<<",">>, s, i)
            IN  IF t.ok THEN Ok(t.pos, Some(t.val)) ELSE Ok(i, None)
      [] p = "text" -> TakeUntil(<<",">>, s, i)
      [] p = "reverse_bool" -> parse_reverse_bool(s, i)
      [] p = "double" -> Double(s, i)
      [] p = "marked" ->
            IF TagNoCaseAt(Chars("Marked="), s, i) THEN parse_bool(s, i + 7) ELSE Fail
      [] p = "rest" -> RestP(s, i)

\* tuple((terminated(p1, pair(char(','), space0)), ..., pn)): the fields in
\* order, each but the last followed by a comma and optional blanks
RECURSIVE Fields(_, _, _, _)
Fields(ps, s, i, acc) ==
    IF ps = <<>> THEN Ok(i, acc)
    ELSE LET f == Field(Head(ps), s, i)
         IN  IF ~f.ok THEN Fail
             ELSE IF Len(ps) = 1 THEN Ok(f.pos, Append(acc, f.val))
             ELSE IF ~Char(",", s, f.pos) THEN Fail
             ELSE Fields(Tail(ps), s, Space0(s, f.pos + 1), Append(acc, f.val))

EventFields(dialect) ==
    <<IF dialect = "ass" THEN "i64" ELSE "marked", "timestamp", "timestamp",
      "opt_text", "opt_text", "i64", "i64", "i64", "opt_text", "rest">>

\* parse_event_line: the fields after the keyword of an event line
parse_event_line(dialect, s, i) ==
    LET c == Space0(s, i)
    IN  IF Char(":", s, c)
        THEN Fields(EventFields(dialect), s, Space0(s, c + 1), <<>>)
        ELSE Fail

\* map_ass_event, map_ssa_event
map_event(dialect, r, kind) ==
    IF ~r.ok THEN r
    ELSE Ok(r.pos,
            [kind |-> kind, start |-> r.val[2], end |-> r.val[3],
             style |-> r.val[4], name |-> r.val[5], margin_l |-> r.val[6],
             margin_r |-> r.val[7], margin_v |-> r.val[8], effect |-> r.val[9],
             text |-> r.val[10]]
            @@ (IF dialect = "ass" THEN "layer" :> r.val[1] ELSE "marked" :> r.val[1]))

EventKinds == <<"Dialogue", "Picture", "Sound", "Movie", "Command">>

\* parse_dialogue, parse_picture, parse_sound, parse_movie, parse_command
parse_event_of(kind, dialect, s, i) ==
    IF TagNoCaseAt(Chars(kind), s, i)
    THEN map_event(dialect, parse_event_line(dialect, s, i + Len(kind)), kind)
    ELSE Fail

Category(cat, r) == IF r.ok THEN Ok(r.pos, [cat |-> cat, val |-> r.val]) ELSE r

parse_event(dialect, s, i) ==
    Category("Events",
             Alt([k \in DOMAIN EventKinds |-> parse_event_of(EventKinds[k], dialect, s, i)]))

StyleFields(dialect) ==
    IF dialect = "ass"
    THEN <<"text", "text", "i64", "text", "text", "text", "text",
           "reverse_bool", "reverse_bool", "reverse_bool", "reverse_bool",
           "i64", "i64", "i64", "double", "i64", "i64", "i64", "i64", "i64",
           "i64", "i64", "i64">>
    ELSE <<"text", "text", "i64", "text", "text", "text", "text",
           "reverse_bool", "reverse_bool", "i64", "i64", "i64", "i64", "i64",
           "i64", "i64", "i64", "i64">>

StyleNames(dialect) ==
    IF dialect = "ass"
    THEN <<"name", "fontname", "fontsize", "primary_colour", "secondary_colour",
           "outline_colour", "back_colour", "bold", "italic", "underline",
           "strike_out", "scale_x", "scale_y", "spacing", "angle", "border_style",
           "outline", "shadow", "alignment", "margin_l", "margin_r", "margin_v",
           "encoding">>
    ELSE <<"name", "fontname", "fontsize", "primary_colour", "secondary_colour",
           "tertiary_colour", "back_colour", "bold", "italic", "border_style",
           "outline", "shadow", "alignment", "margin_l", "margin_r", "margin_v",
           "alpha_level", "encoding">>

parse_style_line(dialect, s, i) ==
    LET c == Space0(s, i + 5)
        f == Fields(StyleFields(dialect), s, Space0(s, c + 1), <<>>)
    IN  IF TagNoCaseAt(Chars("Style"), s, i) /\ Char(":", s, c) /\ f.ok
        THEN Ok(f.pos, [cat |-> "Styles",
                        val |-> [n \in Range(StyleNames(dialect)) |->
                                    f.val[CHOOSE k \in DOMAIN StyleNames(dialect) :
                                              StyleNames(dialect)[k] = n]]])
        ELSE Fail

\* separated_pair(take_until(":"), delimited(space0, char(':'), space0), rest)
parse_script_info_line(s, i) ==
    LET k == TakeUntil(<<":">>, s, i)
    IN  IF ~k.ok THEN Fail
        ELSE Ok(Len(s) + 1,
                [cat |-> "ScriptInfo",
                 val |-> [key |-> k.val, value |-> Rest(s, Space0(s, k.pos + 1))]])

parse_font_line(s, i) == Category("Fonts", RestP(s, i))

parse_graphic_line(s, i) == Category("Graphics", RestP(s, i))

parse_nothing(s, i) == Fail

SectionHeaders ==
    <<[tag |-> Chars("Events"), section |-> "Events"],
      [tag |-> Chars("V4 Styles"), section |-> "Styles"],
      [tag |-> Chars("V4+ Styles"), section |-> "Styles"],
      [tag |-> Chars("Fonts"), section |-> "Fonts"],
      [tag |-> Chars("Graphics"), section |-> "Graphics"],
      [tag |-> Chars("Script Info"), section |-> "ScriptInfo"]>>

\* delimited(multispace0, delimited(char('['), alt((..headers..)), char(']')),
\* multispace0): whatever follows on the line is left over and ignored
parse_category_header(s, i) ==
    LET a == Multispace0(s, i)
        h == Alt([k \in DOMAIN SectionHeaders |->
                    Value(SectionHeaders[k].section,
                          TagNoCase(SectionHeaders[k].tag, s, a + 1))])
    IN  IF Char("[", s, a) /\ h.ok /\ Char("]", s, h.pos)
        THEN Ok(Multispace0(s, h.pos + 1), h.val)
        ELSE Fail

\* parse_fontname / parse_filename, then the data up to the next blank line
parse_embedded(label, s, i) ==
    LET a == Multispace0(s, i)
        n == TakeUntil(<<"\n">>, s, Space0(s, a + Len(label)))
        d == TakeUntil(<<"\n", "\n">>, s, Multispace0(s, n.pos))
    IN  IF TagAt(label, s, a) /\ n.ok /\ d.ok
        THEN Ok(d.pos, [name |-> n.val, data |-> d.val])
        ELSE Fail

\* many0(parse_font), many0(parse_graphic)
RECURSIVE many0_embedded(_, _, _)
many0_embedded(label, s, i) ==
    LET r == parse_embedded(label, s, i)
    IN  IF r.ok THEN <<r.val>> \o many0_embedded(label, s, r.pos) ELSE <<>>

parse_fonts(s) ==
    LET fs == many0_embedded(Chars("fontname:"), s, 1)
    IN  [k \in DOMAIN fs |-> [fontname |-> fs[k].name, data |-> fs[k].data]]

parse_graphics(s) ==
    LET gs == many0_embedded(Chars("filename:"), s, 1)
    IN  [k \in DOMAIN gs |-> [filename |-> gs[k].name, data |-> gs[k].data]]

\* HashMap::insert and HashMap::get on a set of [key, value] entries
MapInsert(map, key, value) ==
    {e \in map : e.key # key} \cup {[key |-> key, value |-> value]}

MapGet(map, key) ==
    IF \E e \in map : e.key = key
    THEN Some((CHOOSE e \in map : e.key = key).value)
    ELSE None

ScriptInfoKeys(dialect) ==
    {"Title", "Original Script", "Original Translation", "Original Editing",
     "Original Timing", "Synch Point", "Script Updated By", "Update Details",
     "ScriptType", "Collisions", "PlayResY", "PlayResX", "PlayDepth", "Timer"}
    \cup (IF dialect = "ass" THEN {"WrapStyle"} ELSE {})

build_script_info(dialect, data) ==
    [k \in ScriptInfoKeys(dialect) |-> MapGet(data, Chars(k))]

----------------------------------------------------------------------------
(* SubStation: parse_ass and parse_ssa                                     *)

NoEvents ==
    [raw_script_info |-> {}, dialogue |-> <<>>, pictures |-> <<>>, sounds |-> <<>>,
     movies |-> <<>>, commands |-> <<>>, styles |-> <<>>, raw_graphics |-> <<>>,
     raw_fonts |-> <<>>]

Bucket(kind) ==
    CASE kind = "Dialogue" -> "dialogue"
      [] kind = "Picture" -> "pictures"
      [] kind = "Sound" -> "sounds"
      [] kind = "Movie" -> "movies"
      [] kind = "Command" -> "commands"

\* the match on the parsed block at the end of the loop body
Store(ev, block) ==
    CASE block.cat = "Events" ->
            [ev EXCEPT ![Bucket(block.val.kind)] = Append(@, block.val)]
      [] block.cat = "Fonts" -> [ev EXCEPT !.raw_fonts = Append(@, block.val)]
      [] block.cat = "Graphics" -> [ev EXCEPT !.raw_graphics = Append(@, block.val)]
      [] block.cat = "ScriptInfo" ->
            [ev EXCEPT !.raw_script_info = MapInsert(@, block.val.key, block.val.value)]
      [] block.cat = "Styles" -> [ev EXCEPT !.styles = Append(@, block.val)]

\* the parser chosen by the current section
parse_fn(section, dialect, s) ==
    CASE section = "Events" -> parse_event(dialect, s, 1)
      [] section = "Styles" -> parse_style_line(dialect, s, 1)
      [] section = "ScriptInfo" -> parse_script_info_line(s, 1)
      [] section = "Graphics" -> parse_graphic_line(s, 1)
      [] section = "Fonts" -> parse_font_line(s, 1)
      [] section = "None" -> parse_nothing(s, 1)

\* a line of a SubStation input as the model puts it together: its text,
\* whether it is a well-formed event line and then the event it stands for,
\* and the section it opens when it is a section header
EventLine(text, rec) == [good |-> TRUE, text |-> text, rec |-> rec, section |-> ""]

OtherLine(text) == [good |-> FALSE, text |-> text, rec |-> <<>>, section |-> ""]

HeaderLine(text, section) ==
    [good |-> FALSE, text |-> text, rec |-> <<>>, section |-> section]

First(dialect, n) ==
    IF dialect = "ass" THEN "layer" :> n ELSE "marked" :> (n = 1)

FirstText(dialect, n) ==
    IF dialect = "ass" THEN NatToText(n) ELSE Chars("Marked=") \o NatToText(n)

SubStationEventLines(dialect) ==
    {EventLine(Chars("Dialogue: ") \o FirstText(dialect, 0)
                   \o Chars(",0:00:01.00,0:00:03.40,Default,,0,0,0,,Oh, yeah."),
               [kind |-> "Dialogue", start |-> 1000, end |-> 3400,
                style |-> Some(Chars("Default")), name |-> Some(<<>>),
                margin_l |-> 0, margin_r |-> 0, margin_v |-> 0,
                effect |-> Some(<<>>), text |-> Chars("Oh, yeah.")]
               @@ First(dialect, 0)),
     EventLine(Chars("command : ") \o FirstText(dialect, 1)
                   \o Chars(", 1:02:03.20 , 1:02:05.4,,Bob,1,2,-3,fx,ls"),
               [kind |-> "Command", start |-> 3723200, end |-> 3725040,
                style |-> Some(<<>>), name |-> Some(Chars("Bob")),
                margin_l |-> 1, margin_r |-> 2, margin_v |-> 0 - 3,
                effect |-> Some(Chars("fx")), text |-> Chars("ls")]
               @@ First(dialect, 1))}

SubStationOtherLines(dialect) ==
    {OtherLine(Chars("Format: Layer, Start, End, Style, Name, MarginL, MarginR, MarginV, Effect, Text")),
     OtherLine(Chars("Comment: 0,0:00:02.00,0:00:05.00,Default,,0,0,0,,Firstly,")),
     OtherLine(<<>>),
     OtherLine(Chars("Dialogue: ") \o FirstText(dialect, 0)
                   \o Chars(",0:00:01.00,Default,,0,0,0,,Hi")),
     OtherLine(Chars("Dialogue: ")
                   \o FirstText(IF dialect = "ass" THEN "ssa" ELSE "ass", 0)
                   \o Chars(",0:00:01.00,0:00:03.40,Default,,0,0,0,,No")),
     OtherLine(Chars("[Foo]"))}

SubStationHeaderLines ==
    {HeaderLine(Chars("[Fonts]"), "Fonts"), HeaderLine(Chars(" [events] "), "Events")}

Preamble(dialect) ==
    <<HeaderLine(Chars("[Script Info]"), "ScriptInfo"),
      OtherLine(Chars("Title : A: B")),
      HeaderLine(IF dialect = "ass" THEN Chars("[V4+ Styles]") ELSE Chars("[V4 Styles]"),
                 "Styles"),
      OtherLine(IF dialect = "ass"
                THEN Chars("Style: Default,Arial,20,&H00FFFFFF,&H0300FFFF,&H00000000,&H02000000,0,-1,0,0,100,100,0,0.5,1,2,2,2,10,10,10,1")
                ELSE Chars("Style: Default,Arial,20,16777215,65535,0,0,-1,0,1,2,2,2,10,10,10,0,1")),
      HeaderLine(Chars("[Events]"), "Events")>>

InitSubStation ==
    /\ mode \in {"ass", "ssa"}
    /\ pc = "loop"
    /\ \E body \in BoundedSeq(SubStationEventLines(mode) \cup SubStationOtherLines(mode)
                                 \cup SubStationHeaderLines, MaxLines) :
          src = Preamble(mode) \o body
    /\ input = LinesText(src)
    /\ lines = Lines(input)
    /\ events = NoEvents
    /\ queue = <<>>
    /\ is_streaming = FALSE
    /\ state = "None"
    /\ out = <<>>

\* a loop in which a line that does not parse also closes the section
SubStationLine_mutant ==
    /\ mode \in {"ass", "ssa"}
    /\ pc = "loop"
    /\ lines # <<>>
    /\ LET header == parse_category_header(Head(lines), 1)
           block == parse_fn(state, mode, Head(lines))
       IN  IF header.ok
           THEN state' = header.val /\ events' = events
           ELSE /\ state' = IF block.ok THEN state ELSE "None"
                /\ events' = IF block.ok THEN Store(events, block.val) ELSE events
    /\ lines' = Tail(lines)
    /\ UNCHANGED <<mode, pc, src, input, queue, is_streaming, out>>

\* parse_ass, parse_ssa: one iteration of the loop over reader.lines()
SubStationLine ==
    /\ mode \in {"ass", "ssa"}
    /\ pc = "loop"
    /\ lines # <<>>
    /\ LET header == parse_category_header(Head(lines), 1)
           block == parse_fn(state, mode, Head(lines))
       IN  IF header.ok
           THEN state' = header.val /\ events' = events
           ELSE /\ state' = state
                /\ events' = IF block.ok THEN Store(events, block.val) ELSE events
    /\ lines' = Tail(lines)
    /\ UNCHANGED <<mode, pc, src, input, queue, is_streaming, out>>

\* parse_ass, parse_ssa: the fonts, the graphics and the builder after the loop
SubStationBuild ==
    /\ mode \in {"ass", "ssa"}
    /\ pc = "loop"
    /\ lines = <<>>
    /\ out' = [script_info |-> build_script_info(mode, events.raw_script_info),
               dialogue |-> events.dialogue,
               pictures |-> events.pictures,
               sounds |-> events.sounds,
               movies |-> events.movies,
               commands |-> events.commands,
               styles |-> events.styles,
               fonts |-> parse_fonts(Join(events.raw_fonts, <<"\n">>)),
               graphics |-> parse_graphics(Join(events.raw_graphics, <<"\n">>))]
    /\ pc' = "done"
    /\ UNCHANGED <<mode, src, input, lines, queue, events, is_streaming, state>>

NextLineParsers ==
    \/ MicroDvdLine
    \/ MicroDvdFromRaw
    \/ MicroDvdRender
    \/ SubStationLine
    \/ SubStationBuild

SpecLineParsers == (InitMicroDvd \/ InitSubStation) /\ [][NextLineParsers]_vars

\* the lines the loop has consumed so far
Consumed == SubSeq(src, 1, Len(src) - Len(lines))

\* the section a line lies in: the one opened by the last header before it
SectionOf(ls, k) ==
    LET H == {j \in 1..(k - 1) : ls[j].section # ""}
    IN  IF H = {} THEN "None" ELSE ls[CHOOSE j \in H : \A h \in H : h <= j].section

\* the events of one kind that the well-formed lines of the [Events]
\* sections stand for, in the order of the lines
EventRecords(ls, kind) ==
    LET idx == SelectSeq([k \in DOMAIN ls |-> k],
                         LAMBDA k : /\ ls[k].good
                                    /\ SectionOf(ls, k) = "Events"
                                    /\ ls[k].rec.kind = kind)
    IN  [j \in DOMAIN idx |-> ls[idx[j]].rec]

\* C2: in the line-per-record parsers a line that does not parse as a record
\* is skipped and has no effect on any other line: after every iteration the
\* events are, in order, the records of the well-formed lines consumed so
\* far (MicroDVD lines; lines of the [Events] sections of ASS and SSA).
C2_SkipMalformed ==
    /\ (mode = "microdvd" /\ pc = "loop") => events = GoodRecords(Consumed)
    /\ (mode \in {"ass", "ssa"} /\ pc = "loop") =>
          \A k \in DOMAIN EventKinds :
              events[Bucket(EventKinds[k])] = EventRecords(Consumed, EventKinds[k])
    /\ (mode \in {"ass", "ssa"} /\ pc = "done") =>
          \A k \in DOMAIN EventKinds :
              out[Bucket(EventKinds[k])] = EventRecords(src, EventKinds[k])

C2_Witness ==
    /\ pc = "loop"
    /\ lines = <<>>
    /\ Len(src) >= 3
    /\ src[Len(src) - 2].good /\ ~src[Len(src) - 1].good /\ src[Len(src)].good
    /\ mode = "ass"
    /\ SectionOf(src, Len(src)) = "Events"
    /\ Len(events.dialogue) = 1
    /\ Len(events.commands) = 1

----------------------------------------------------------------------------
(* timing.rs: the fields of a Moment and its timestamps                    *)

\* i64 division and remainder, which truncate towards zero
RustDiv(a, b) == IF a >= 0 THEN a \div b ELSE 0 - ((0 - a) \div b)

RustRem(a, b) == a - b * RustDiv(a, b)

hours(t) == RustDiv(RustDiv(RustDiv(t, 1000), 60), 60)

minutes(t) == RustRem(RustDiv(RustDiv(t, 1000), 60), 60)

seconds(t) == RustRem(RustDiv(t, 1000), 60)

ms(t) == RustRem(t, 1000)

cs(t) == RustRem(RustDiv(t, 10), 100)

\* format!("{:0w}", n): the sign counts as one of the w characters
ZeroPad(n, w) ==
    LET sign == IF n < 0 THEN <<"-">> ELSE <<>>
        digits == NatToText(Abs(n))
    IN  sign \o [k \in 1..(w - Len(sign) - Len(digits)) |-> "0"] \o digits

as_vtt_timestamp(t) ==
    ZeroPad(hours(t), 2) \o <<":">> \o ZeroPad(minutes(t), 2) \o <<":">>
        \o ZeroPad(seconds(t), 2) \o <<".">> \o ZeroPad(ms(t), 3)

as_srt_timestamp(t) ==
    ZeroPad(hours(t), 2) \o <<":">> \o ZeroPad(minutes(t), 2) \o <<":">>
        \o ZeroPad(seconds(t), 2) \o <<",">> \o ZeroPad(ms(t), 3)

as_substation_timestamp(t) ==
    ZeroPad(hours(t), 1) \o <<":">> \o ZeroPad(minutes(t), 2) \o <<":">>
        \o ZeroPad(seconds(t), 2) \o <<".">> \o ZeroPad(cs(t), 2)

----------------------------------------------------------------------------
(* subrip/parse.rs, subrip/data.rs                                         *)

Arrow == <<"-", "-", ">">>

\* opt(take_until("\n")): Some, possibly of the empty text, when a newline
\* follows somewhere, None when there is none
OptUntilNewline(s, i) ==
    LET t == TakeUntil(<<"\n">>, s, i)
    IN  IF t.ok THEN Ok(t.pos, Some(t.val)) ELSE Ok(i, None)

\* hh:mm:ss,mmm between optional blanks
subrip_parse_timestamp(s, i) ==
    Then(I64(s, Space0(s, i)), LAMBDA h :
    IF ~(h.ok /\ Char(":", s, h.pos)) THEN Fail ELSE
    Then(I64(s, h.pos + 1), LAMBDA m :
    IF ~(m.ok /\ Char(":", s, m.pos)) THEN Fail ELSE
    Then(I64(s, m.pos + 1), LAMBDA sec :
    IF ~(sec.ok /\ Char(",", s, sec.pos)) THEN Fail ELSE
    Then(I64(s, sec.pos + 1), LAMBDA milli :
    IF ~milli.ok THEN Fail
    ELSE Ok(Space0(s, milli.pos),
            from_timestamp(h.val, m.val, sec.val, milli.val))))))

\* pair(separated_pair(parse_timestamp, tag("-->"), parse_timestamp),
\*      terminated(opt(take_until("\n")), line_ending))
parse_timing(s, i) ==
    Then(subrip_parse_timestamp(s, i), LAMBDA a :
    IF ~(a.ok /\ TagAt(Arrow, s, a.pos)) THEN Fail ELSE
    Then(subrip_parse_timestamp(s, a.pos + 3), LAMBDA b :
    IF ~b.ok THEN Fail ELSE
    Then(OptUntilNewline(s, b.pos), LAMBDA c :
    IF LineEnding(s, c.pos) = 0 THEN Fail
    ELSE Ok(LineEnding(s, c.pos), [start |-> a.val, end |-> b.val, rest |-> c.val]))))

parse_line_number(s, i) ==
    Then(U32(s, i), LAMBDA n :
    IF n.ok /\ LineEnding(s, n.pos) # 0 THEN Ok(LineEnding(s, n.pos), n.val) ELSE Fail)

\* many0(line_ending)
RECURSIVE LineEndings0(_, _)
LineEndings0(s, i) == IF LineEnding(s, i) = 0 THEN i ELSE LineEndings0(s, LineEnding(s, i))

parse_new_line(s, i) ==
    Then(parse_line_number(s, LineEndings0(s, i)), LAMBDA n :
    IF ~n.ok THEN Fail ELSE
    Then(parse_timing(s, n.pos), LAMBDA t :
    IF ~t.ok THEN Fail ELSE
    Then(take_until_end_of_block(s, t.pos), LAMBDA x :
    Ok(x.pos, [block |-> "NewLine",
               val |-> [line_number |-> n.val, text |-> x.val,
                        start |-> t.val.start, end |-> t.val.end,
                        coordinates |-> t.val.rest]]))))

parse_continuation(s, i) ==
    LET t == TakeUntil(<<"\n", "\n">>, s, i)
    IN  IF t.ok THEN Ok(t.pos, [block |-> "LineContinuation", val |-> t.val]) ELSE Fail

subrip_parse_block(s, i) ==
    Then(Multispace0(s, i), LAMBDA a :
    Then(parse_new_line(s, a), LAMBDA new_line :
    IF new_line.ok THEN new_line ELSE parse_continuation(s, a)))

\* separated_list1(tag("\n\n"), parse_block): after the first block, a
\* separator that is not followed by a block is left unconsumed
RECURSIVE subrip_more_blocks(_, _, _)
subrip_more_blocks(s, i, acc) ==
    IF ~TagAt(<<"\n", "\n">>, s, i) THEN Ok(i, acc)
    ELSE Then(subrip_parse_block(s, i + 2), LAMBDA b :
         IF ~b.ok THEN Ok(i, acc)
         ELSE Then(Append(acc, b.val), LAMBDA more : subrip_more_blocks(s, b.pos, more)))

subrip_parse_blocks(s) ==
    Then(subrip_parse_block(s, 1), LAMBDA b :
    IF b.ok THEN subrip_more_blocks(s, b.pos, <<b.val>>) ELSE Fail)

\* the loop over the parsed blocks in parse_srt
RECURSIVE push_blocks(_, _)
push_blocks(evs, blocks) ==
    IF blocks = <<>> THEN evs
    ELSE Then(Head(blocks), LAMBDA b :
         Then(IF b.block = "NewLine" THEN Append(evs, b.val)
              ELSE IF evs = <<>> THEN evs
              ELSE [evs EXCEPT ![Len(evs)].text = @ \o <<"\n", "\n">> \o b.val],
              LAMBDA next : Then(Tail(blocks), LAMBDA rest : push_blocks(next, rest))))

\* impl Display for SubRipEvent
SubRipEventDisplay(e) ==
    IntToText(e.line_number) \o <<"\n">>
        \o as_srt_timestamp(e.start) \o <<" ">> \o Arrow \o <<" ">> \o as_srt_timestamp(e.end)
        \o (IF e.coordinates.some THEN <<" ">> \o e.coordinates.val ELSE <<>>)
        \o <<"\n">> \o e.text

\* impl Display for SubRipSubtitle
SubRipDisplay(evs) ==
    Flatten([k \in DOMAIN evs |->
        (IF k > 1 THEN <<"\n">> ELSE <<>>) \o SubRipEventDisplay(evs[k]) \o <<"\n">>])

----------------------------------------------------------------------------
(* webvtt/parse.rs, webvtt/data.rs                                         *)

\* preceded(tuple((tag_no_case("WEBVTT"), space0, opt(tag("-")), space0)),
\*          opt(take_until("\n")))
parse_header(s, i) ==
    LET a == Space0(s, i + 6)
        b == Space0(s, IF Char("-", s, a) THEN a + 1 ELSE a)
    IN  IF TagNoCaseAt(Chars("WEBVTT"), s, i) THEN OptUntilNewline(s, b) ELSE Fail

\* hh:mm:ss.mmm, or mm:ss.mmm, between optional blanks
webvtt_parse_timestamp(s, i) ==
    Then(I64(s, Space0(s, i)), LAMBDA a :
    IF ~(a.ok /\ Char(":", s, a.pos)) THEN Fail ELSE
    Then(I64(s, a.pos + 1), LAMBDA b :
    IF ~b.ok THEN Fail ELSE
    Then(I64(s, b.pos + 1), LAMBDA c :
    IF ~c.ok THEN Fail ELSE
    Then(IF Char(":", s, b.pos) /\ Char(".", s, c.pos) THEN I64(s, c.pos + 1) ELSE Fail,
         LAMBDA d :
    IF d.ok
    THEN Ok(Space0(s, d.pos), from_timestamp(a.val, b.val, c.val, d.val))
    ELSE IF Char(".", s, b.pos)
    THEN Ok(Space0(s, c.pos), from_timestamp(0, a.val, b.val, c.val))
    ELSE Fail))))

parse_cue_timing(s, i) ==
    Then(webvtt_parse_timestamp(s, i), LAMBDA a :
    IF ~(a.ok /\ TagAt(Arrow, s, a.pos)) THEN Fail ELSE
    Then(webvtt_parse_timestamp(s, a.pos + 3), LAMBDA b :
    IF ~b.ok THEN Fail ELSE
    Then(OptUntilNewline(s, b.pos), LAMBDA c :
    IF LineEnding(s, c.pos) = 0 THEN Fail
    ELSE Ok(LineEnding(s, c.pos), [start |-> a.val, end |-> b.val, rest |-> c.val]))))

\* terminated(take_until("\n"), line_ending)
parse_cue_identifier(s, i) ==
    Then(TakeUntil(<<"\n">>, s, i), LAMBDA t : IF t.ok THEN Ok(t.pos + 1, t.val) ELSE Fail)

\* alt((pair(opt(parse_cue_identifier), parse_cue_timing),
\*      pair(opt(space0), parse_cue_timing))): the second alternative is tried
\* from the start of the cue and its opt(space0) always yields Some
parse_cue_head(s, i) ==
    Then(parse_cue_identifier(s, i), LAMBDA id :
    Then(parse_cue_timing(s, IF id.ok THEN id.pos ELSE i), LAMBDA first :
    IF first.ok
    THEN Ok(first.pos, [identifier |-> IF id.ok THEN Some(id.val) ELSE None,
                        timing |-> first.val])
    ELSE Then(parse_cue_timing(s, Space0(s, i)), LAMBDA second :
         IF second.ok
         THEN Ok(second.pos, [identifier |-> Some(Sub(s, i, Space0(s, i))),
                              timing |-> second.val])
         ELSE Fail)))

parse_cue(s, i) ==
    Then(parse_cue_head(s, i), LAMBDA h :
    IF ~h.ok THEN Fail ELSE
    Then(take_until_end_of_block(s, h.pos), LAMBDA x :
    Ok(x.pos, [block |-> "Cue",
               val |-> [identifier |-> h.val.identifier, text |-> x.val,
                        settings |-> h.val.timing.rest,
                        start |-> h.val.timing.start, end |-> h.val.timing.end]])))

\* preceded(pair(tag(keyword), line_ending), take_until_end_of_block)
KeywordBlock(keyword, block, s, i) ==
    IF ~(TagAt(Chars(keyword), s, i) /\ LineEnding(s, i + Len(keyword)) # 0) THEN Fail ELSE
    Then(take_until_end_of_block(s, LineEnding(s, i + Len(keyword))), LAMBDA x :
    Ok(x.pos, [block |-> block, val |-> x.val]))

parse_style(s, i) == KeywordBlock("STYLE", "Style", s, i)

parse_region(s, i) == KeywordBlock("REGION", "Region", s, i)

\* preceded(pair(tag("NOTE"), alt((space1, line_ending))), take_until_end_of_block)
parse_note(s, i) ==
    Then(IF Space0(s, i + 4) > i + 4 THEN Space0(s, i + 4) ELSE LineEnding(s, i + 4),
         LAMBDA a :
    IF ~(TagAt(Chars("NOTE"), s, i) /\ a # 0) THEN Fail ELSE
    Then(take_until_end_of_block(s, a), LAMBDA x :
    Ok(x.pos, [block |-> "Note", val |-> x.val])))

\* alt((take_until("\n\n"), rest)): never fails
parse_invalid(s, i) ==
    Then(TakeUntil(<<"\n", "\n">>, s, i), LAMBDA t :
    Then(IF t.ok THEN t ELSE RestP(s, i), LAMBDA r :
    Ok(r.pos, [block |-> "Invalid", val |-> r.val])))

\* a block parser that tries parse_invalid before the other alternatives
webvtt_parse_block_mutant(s, i) ==
    Then(Multispace0(s, i), LAMBDA a : parse_invalid(s, a))

webvtt_parse_block(s, i) ==
    Then(Multispace0(s, i), LAMBDA a :
    Then(parse_cue(s, a), LAMBDA cue :
    IF cue.ok THEN cue ELSE
    Then(parse_style(s, a), LAMBDA style :
    IF style.ok THEN style ELSE
    Then(parse_note(s, a), LAMBDA note :
    IF note.ok THEN note ELSE
    Then(parse_region(s, a), LAMBDA region :
    IF region.ok THEN region ELSE parse_invalid(s, a))))))

\* value("", pair(line_ending, line_ending)): the position after it, or 0
parse_double_newline(s, i) ==
    IF LineEnding(s, i) = 0 THEN 0 ELSE LineEnding(s, LineEnding(s, i))

\* separated_list1(parse_double_newline, parse_block)
RECURSIVE webvtt_more_blocks(_, _, _)
webvtt_more_blocks(s, i, acc) ==
    Then(parse_double_newline(s, i), LAMBDA a :
    IF a = 0 THEN Ok(i, acc)
    ELSE Then(webvtt_parse_block(s, a), LAMBDA b :
         IF ~b.ok THEN Ok(i, acc)
         ELSE Then(Append(acc, b.val), LAMBDA more : webvtt_more_blocks(s, b.pos, more))))

webvtt_parse_blocks(s) ==
    Then(webvtt_parse_block(s, 1), LAMBDA b :
    IF b.ok THEN webvtt_more_blocks(s, b.pos, <<b.val>>) ELSE Fail)

NoCues == [header |-> None, cues |-> <<>>, styles |-> <<>>, regions |-> <<>>]

\* the loop over the parsed blocks in parse_vtt
RECURSIVE sort_blocks(_, _)
sort_blocks(doc, blocks) ==
    IF blocks = <<>> THEN doc
    ELSE Then(Head(blocks), LAMBDA b :
         Then(CASE b.block = "Cue" -> [doc EXCEPT !.cues = Append(@, b.val)]
                [] b.block = "Style" -> [doc EXCEPT !.styles = Append(@, b.val)]
                [] b.block = "Region" -> [doc EXCEPT !.regions = Append(@, b.val)]
                [] OTHER -> doc,
              LAMBDA next : Then(Tail(blocks), LAMBDA rest : sort_blocks(next, rest))))

\* impl Display for WebVttCue
WebVttCueDisplay(c) ==
    (IF c.identifier.some THEN c.identifier.val \o <<"\n">> ELSE <<>>)
        \o as_vtt_timestamp(c.start) \o <<" ">> \o Arrow \o <<" ">> \o as_vtt_timestamp(c.end)
        \o (IF c.settings.some THEN c.settings.val ELSE <<>>)
        \o <<"\n">> \o c.text

\* impl Display for WebVttSubtitle
WebVttDisplay(doc) ==
    Chars("WEBVTT")
        \o (IF doc.header.some THEN Chars(" - ") \o doc.header.val \o <<"\n">> ELSE <<>>)
        \o (IF doc.styles = <<>> THEN <<>>
            ELSE <<"\n">> \o Flatten([k \in DOMAIN doc.styles |->
                                Chars("STYLE") \o <<"\n">> \o doc.styles[k] \o <<"\n">>]))
        \o (IF doc.regions = <<>> THEN <<>>
            ELSE <<"\n">> \o Flatten([k \in DOMAIN doc.regions |->
                                Chars("REGION") \o <<"\n">> \o doc.regions[k] \o <<"\n">>]))
        \o (IF doc.cues = <<>> THEN <<>>
            ELSE <<"\n">> \o Flatten([k \in DOMAIN doc.cues |->
                                <<"\n">> \o WebVttCueDisplay(doc.cues[k]) \o <<"\n">>]))

----------------------------------------------------------------------------
(* The streaming parsers: parse_srt and parse_vtt, then to_string          *)

\* a run of lines of the input as the model puts it together
Unit(kind, ls) == [kind |-> kind, lines |-> [k \in DOMAIN ls |-> Chars(ls[k])]]

UnitsText(us) ==
    Flatten([k \in DOMAIN us |->
        Flatten([j \in DOMAIN us[k].lines |-> us[k].lines[j] \o <<"\n">>])])

\* a byte that no UTF-8 text holds: BufRead::lines yields Err for its line
InvalidByte == "xFF"

IsUtf8(line) == \A k \in DOMAIN line : line[k] # InvalidByte

SrtUnits ==
    {Unit("record", <<"1", "00:00:01,000 --> 00:00:02,500", "Hi">>),
     Unit("record", <<"12", "01:02:03,004 --> 10:59:59,999", "Bye", "now">>),
     Unit("blank", <<"">>),
     Unit("other", <<"junk">>),
     [kind |-> "other", lines |-> <<<<"a", InvalidByte>>>>],
     Unit("other", <<"3", "00:00:03,000 --> 00:00:06,000 X1:1 Y1:2", "c">>)}

VttHeads == {Unit("header", <<"WEBVTT">>), Unit("titled", <<"WEBVTT - title">>)}

VttUnits ==
    {Unit("cue", <<"00:00:00.650 --> 00:00:01.200", "something">>),
     Unit("cue", <<"1", "00:00:04.000 --> 01:02:06.007", "foo", "bar">>),
     Unit("blank", <<"">>),
     Unit("other", <<"NOTE ignore this please">>),
     Unit("other", <<"STYLE", "a">>),
     [kind |-> "other", lines |-> <<<<"a", InvalidByte>>>>],
     Unit("other", <<"junk">>)}

InitSrt ==
    /\ mode = "srt"
    /\ pc = "loop"
    /\ src \in BoundedSeq(SrtUnits, MaxUnits)
    /\ input = UnitsText(src)
    /\ lines = Lines(input)
    /\ queue = <<>>
    /\ events = <<>>
    /\ is_streaming = TRUE
    /\ state = "None"
    /\ out = <<>>

InitVtt ==
    /\ mode = "vtt"
    /\ pc = "header"
    /\ \E head \in VttHeads, body \in BoundedSeq(VttUnits, MaxUnits) : src = <<head>> \o body
    /\ input = UnitsText(src)
    /\ lines = Lines(input)
    /\ queue = <<>>
    /\ events = NoCues
    /\ is_streaming = TRUE
    /\ state = "None"
    /\ out = <<>>

\* a loop that goes on streaming at the end of the input
Pull_mutant ==
    IF lines = <<>>
    THEN [lines |-> lines, queue |-> queue, is_streaming |-> TRUE, parse |-> TRUE]
    ELSE IF ~IsUtf8(Head(lines))
    THEN [lines |-> Tail(lines), queue |-> queue, is_streaming |-> TRUE, parse |-> FALSE]
    ELSE [lines |-> Tail(lines), queue |-> queue \o Head(lines) \o <<"\n">>,
          is_streaming |-> TRUE, parse |-> Head(lines) = <<>>]

\* the head of the loop body: lines.next(), where a line the reader could
\* not decode is dropped, the push onto the queue, and whether the iteration
\* goes on to parse the queue
Pull ==
    IF lines = <<>>
    THEN [lines |-> lines, queue |-> queue, is_streaming |-> FALSE, parse |-> TRUE]
    ELSE IF ~IsUtf8(Head(lines))
    THEN [lines |-> Tail(lines), queue |-> queue, is_streaming |-> TRUE, parse |-> FALSE]
    ELSE [lines |-> Tail(lines), queue |-> queue \o Head(lines) \o <<"\n">>,
          is_streaming |-> TRUE, parse |-> Head(lines) = <<>>]

\* parse_srt: one iteration of `while is_streaming`
SrtIteration ==
    /\ mode = "srt"
    /\ pc = "loop"
    /\ is_streaming
    /\ \E p \in {Pull} :
          /\ lines' = p.lines
          /\ is_streaming' = p.is_streaming
          /\ IF ~p.parse
             THEN queue' = p.queue /\ events' = events /\ state' = "queued"
             ELSE \E r \in {subrip_parse_blocks(p.queue)} :
                     IF ~r.ok
                     THEN queue' = p.queue /\ events' = events /\ state' = "failed"
                     ELSE /\ queue' = Rest(p.queue, r.pos)
                          /\ events' = push_blocks(events, r.val)
                          /\ state' = "parsed"
    /\ UNCHANGED <<mode, pc, src, input, out>>

\* parse_srt: the end of the loop and SubRipSubtitle::from_events
SrtFromEvents ==
    /\ mode = "srt"
    /\ pc = "loop"
    /\ ~is_streaming
    /\ pc' = "parsed"
    /\ UNCHANGED <<mode, src, input, lines, queue, events, is_streaming, state, out>>

\* impl Display for SubRipSubtitle
SrtRender ==
    /\ mode = "srt"
    /\ pc = "parsed"
    /\ out' = SubRipDisplay(events)
    /\ pc' = "done"
    /\ UNCHANGED <<mode, src, input, lines, queue, events, is_streaming, state>>

\* parse_vtt: the first line and the header
VttHeader ==
    /\ mode = "vtt"
    /\ pc = "header"
    /\ LET h == parse_header(Head(lines), 1)
       IN  IF lines = <<>> THEN UNCHANGED <<lines, events>>
           ELSE /\ lines' = Tail(lines)
                /\ events' = [events EXCEPT !.header =
                                 IF IsUtf8(Head(lines)) /\ h.ok THEN h.val ELSE None]
    /\ pc' = "loop"
    /\ UNCHANGED <<mode, src, input, queue, is_streaming, state, out>>

\* parse_vtt: one iteration of `while is_streaming`
VttIteration ==
    /\ mode = "vtt"
    /\ pc = "loop"
    /\ is_streaming
    /\ \E p \in {Pull} :
          /\ lines' = p.lines
          /\ is_streaming' = p.is_streaming
          /\ IF ~p.parse
             THEN queue' = p.queue /\ events' = events /\ state' = "queued"
             ELSE \E r \in {webvtt_parse_blocks(p.queue)} :
                     IF ~r.ok
                     THEN queue' = p.queue /\ events' = events /\ state' = "failed"
                     ELSE /\ queue' = Rest(p.queue, r.pos)
                          /\ events' = sort_blocks(events, r.val)
                          /\ state' = "parsed"
    /\ UNCHANGED <<mode, pc, src, input, out>>

\* parse_vtt: the end of the loop and the builder
VttBuild ==
    /\ mode = "vtt"
    /\ pc = "loop"
    /\ ~is_streaming
    /\ pc' = "parsed"
    /\ UNCHANGED <<mode, src, input, lines, queue, events, is_streaming, state, out>>

\* impl Display for WebVttSubtitle
VttRender ==
    /\ mode = "vtt"
    /\ pc = "parsed"
    /\ out' = WebVttDisplay(events)
    /\ pc' = "done"
    /\ UNCHANGED <<mode, src, input, lines, queue, events, is_streaming, state>>

NextStream ==
    \/ SrtIteration
    \/ SrtFromEvents
    \/ SrtRender
    \/ VttHeader
    \/ VttIteration
    \/ VttBuild
    \/ VttRender

\* the loops run on: nothing but the end of the input stops the program
SpecStream == (InitSrt \/ InitVtt) /\ [][NextStream]_vars /\ WF_vars(NextStream)

\* C3: parse_srt and parse_vtt terminate on every finite sequence of lines:
\* every iteration of the streaming loop consumes one input line or is the
\* last one, also when the queued text does not parse, and the parse ends.
C3_Terminates ==
    /\ [][(pc = "loop" /\ is_streaming)
             => (Len(lines') = Len(lines) - 1 \/ ~is_streaming')]_vars
    /\ <>(pc = "done")

C3_Witness ==
    /\ mode = "srt"
    /\ pc = "loop"
    /\ is_streaming
    /\ state = "failed"
    /\ lines # <<>>
    /\ queue # <<>>

\* records of the canonical kind, separated by exactly one blank line
Alternating(us, kind) ==
    /\ Len(us) % 2 = 1
    /\ \A k \in DOMAIN us : us[k].kind = IF k % 2 = 1 THEN kind ELSE "blank"

\* C4: a SubRip text in canonical form (number line, timing line without
\* coordinates or trailing space, text lines, one blank line between records)
\* is reproduced byte for byte by SubRipSubtitle::from_str and to_string.
C4_SubRipRoundTrip ==
    (mode = "srt" /\ pc = "done" /\ Alternating(src, "record")) => out = input

\* C5: a canonical WebVTT text (the WEBVTT line, then cues each preceded by
\* one blank line, with or without an identifier line) is reproduced byte
\* for byte; a cue without an identifier is rendered without an identifier
\* line and without an extra blank line.
C5_WebVttRoundTrip ==
    (/\ mode = "vtt"
     /\ pc = "done"
     /\ src[1].kind = "header"
     /\ Len(src) > 1
     /\ \A k \in 2..Len(src) : src[k].kind = IF k % 2 = 0 THEN "blank" ELSE "cue"
     /\ src[Len(src)].kind = "cue")
        => out = input

----------------------------------------------------------------------------
(* detection.rs: detect_format_from_str                                    *)

MaxDetectLines == 3

\* delimited(char('['), tag_no_case("Script Info"), char(']'))
parse_script_info_heading(s, i) ==
    IF ~Char("[", s, i) THEN Fail ELSE
    Then(TagNoCase(Chars("Script Info"), s, i + 1), LAMBDA t :
    IF t.ok /\ Char("]", s, t.pos) THEN Ok(t.pos + 1, t.val) ELSE Fail)

\* the match on the lowercased tag in parse_script_type
FormatOfTag(t) ==
    IF [k \in DOMAIN t |-> Lower(t[k])] = Chars("v4.00") THEN "Ssa" ELSE "Ass"

\* a version alternative that tries the shorter tag first
parse_script_type_mutant(s, i) ==
    Then(Space0(s, i), LAMBDA a :
    IF ~TagNoCaseAt(Chars("ScriptType"), s, a) THEN Fail ELSE
    Then(Space0(s, a + 10), LAMBDA b :
    IF ~Char(":", s, b) THEN Fail ELSE
    Then(Space0(s, b + 1), LAMBDA c :
    Then(Alt(<<TagNoCase(Chars("v4.00"), s, c), TagNoCase(Chars("v4.00+"), s, c)>>),
         LAMBDA v :
    IF v.ok THEN Ok(Multispace0(s, v.pos), FormatOfTag(v.val)) ELSE Fail))))

\* preceded(tuple((space0, tag_no_case("ScriptType"), space0, char(':'), space0)),
\*          terminated(alt((tag_no_case("v4.00+"), tag_no_case("v4.00"))), multispace0))
parse_script_type(s, i) ==
    Then(Space0(s, i), LAMBDA a :
    IF ~TagNoCaseAt(Chars("ScriptType"), s, a) THEN Fail ELSE
    Then(Space0(s, a + 10), LAMBDA b :
    IF ~Char(":", s, b) THEN Fail ELSE
    Then(Space0(s, b + 1), LAMBDA c :
    Then(Alt(<<TagNoCase(Chars("v4.00+"), s, c), TagNoCase(Chars("v4.00"), s, c)>>),
         LAMBDA v :
    IF v.ok THEN Ok(Multispace0(s, v.pos), FormatOfTag(v.val)) ELSE Fail))))

\* many_till(anychar, parse_script_type): the first position of the text at
\* which parse_script_type succeeds
parse_format(s, i) ==
    Then({j \in i..(Len(s) + 1) : parse_script_type(s, j).ok}, LAMBDA J :
    IF J = {} THEN Fail ELSE parse_script_type(s, Min(J)))

detect_format_from_str(text) ==
    IF parse_header(text, 1).ok THEN "WebVtt"
    ELSE IF parse_new_line(text, 1).ok THEN "SubRip"
    ELSE IF parse_script_info_heading(text, 1).ok
    THEN Then(parse_format(text, 1), LAMBDA f : IF f.ok THEN f.val ELSE "Ass")
    ELSE IF parse_microdvd_line(text, 1).ok THEN "MicroDvd"
    ELSE "FormatUnknownError"

\* a line of the sampled text and what it is
DetectLine(kind, text) == [kind |-> kind, text |-> Chars(text)]

DetectLines ==
    {DetectLine("webvtt", "WEBVTT"),
     DetectLine("webvtt", "webvtt - x"),
     DetectLine("number", "1"),
     DetectLine("timing", "00:00:05,000 --> 00:00:09,200"),
     DetectLine("text", "Text"),
     DetectLine("text", " WEBVTT"),
     DetectLine("text", "ScriptType: v3.00"),
     DetectLine("heading", "[Script Info]"),
     DetectLine("heading", "[script info]"),
     DetectLine("v4.00+", "ScriptType: v4.00+"),
     DetectLine("v4.00", "ScriptType: v4.00 "),
     DetectLine("v4.00", "scripttype : V4.00"),
     DetectLine("frames", "{0}{120}Help|me"),
     DetectLine("blank", "")}

\* detect_format: the sampled lines are joined with "\n"
InitDetect ==
    /\ mode = "detect"
    /\ pc = "start"
    /\ src \in BoundedSeq(DetectLines, MaxDetectLines)
    /\ input = Join([k \in DOMAIN src |-> src[k].text], <<"\n">>)
    /\ lines = <<>>
    /\ queue = <<>>
    /\ events = <<>>
    /\ is_streaming = FALSE
    /\ state = "None"
    /\ out = <<>>

Detect ==
    /\ mode = "detect"
    /\ pc = "start"
    /\ out' = detect_format_from_str(input)
    /\ pc' = "done"
    /\ UNCHANGED <<mode, src, input, lines, queue, events, is_streaming, state>>

SpecDetect == InitDetect /\ [][Detect]_vars

\* the pattern that the lines of a sampled text show, in the order of the
\* attempts: a WEBVTT first line; a number line and a timing line after any
\* blank lines, with a line after them; a [Script Info] first line, told
\* apart by its first ScriptType line; a first line of two frames
Kinds(ls) == [k \in DOMAIN ls |-> ls[k].kind]

FirstRecordAt(ks, n) ==
    /\ n + 2 <= Len(ks)
    /\ \A k \in 1..(n - 1) : ks[k] = "blank"
    /\ ks[n] = "number"
    /\ ks[n + 1] = "timing"

ScriptTypes(ks) == SelectSeq(ks, LAMBDA k : k \in {"v4.00", "v4.00+"})

PatternOf(ks) ==
    IF ks # <<>> /\ ks[1] = "webvtt" THEN "WebVtt"
    ELSE IF \E n \in DOMAIN ks : FirstRecordAt(ks, n) THEN "SubRip"
    ELSE IF ks # <<>> /\ ks[1] = "heading"
    THEN (IF ScriptTypes(ks) # <<>> /\ ScriptTypes(ks)[1] = "v4.00" THEN "Ssa" ELSE "Ass")
    ELSE IF ks # <<>> /\ ks[1] = "frames" THEN "MicroDvd"
    ELSE "FormatUnknownError"

\* C7: detect_format_from_str returns the format of the first pattern that
\* matches, tried in the order WebVTT header, SubRip first record,
\* [Script Info] heading, MicroDVD first line; under a [Script Info] heading
\* it is SSA when the ScriptType line reads v4.00 and ASS when it reads
\* v4.00+ or when there is none; it is FormatUnknownError when no pattern
\* matches, as for the empty text.
C7_DetectOrder ==
    (mode = "detect" /\ pc = "done") => out = PatternOf(Kinds(src))

C7_Witness ==
    /\ mode = "detect"
    /\ pc = "done"
    /\ Len(src) = 3
    /\ src[1].kind = "heading"
    /\ src[2].kind = "text"
    /\ src[3].kind = "v4.00+"
    /\ out = "Ass"

----------------------------------------------------------------------------
(* The remaining tag converters: subrip/convert.rs, webvtt/convert.rs,     *)
(* substation/ssa/convert.rs, substation/ass/convert.rs                    *)

\* map(many_till(P, eof), join): the pieces that P yields from position 1 up
\* to the end of s; it fails when P fails and when P succeeds without
\* consuming input
ManyTillEof(P(_, _), s) ==
    LET run[i \in 1..(Len(s) + 1)] ==
            IF i > Len(s) THEN Ok(i, <<>>)
            ELSE Then(P(s, i), LAMBDA r :
                 IF ~r.ok THEN r
                 ELSE IF r.pos = i THEN Fail
                 ELSE Then(run[r.pos], LAMBDA t :
                      IF t.ok THEN Ok(t.pos, r.val \o t.val) ELSE t))
    IN  run[1]

srt_to_ssa_alt(s, i) ==
    Alt(<<convert_to_ssa_tag(s, i),
          replace_font_color_tag(s, i),
          discard_html_tag(s, i),
          discard_bracket_tag(s, i),
          TakeWhilePlain(s, i),
          RestP(s, i)>>)

subrip_convert_to_ssa_formatting(s) == ManyTillEof(srt_to_ssa_alt, s)

\* webvtt/convert.rs
webvtt_discard_tag(s, i) == Value(<<>>, Delimited(<<"<">>, <<">">>, s, i))

webvtt_convert_to_ass_tag(s, i) ==
    Alt(<<Value(AssB1, Tag(HtmlB, s, i)),
          Value(AssB0, Tag(HtmlBEnd, s, i)),
          Value(AssI1, Tag(HtmlI, s, i)),
          Value(AssI0, Tag(HtmlIEnd, s, i)),
          Value(AssU1, Tag(HtmlU, s, i)),
          Value(AssU0, Tag(HtmlUEnd, s, i))>>)

webvtt_keep_html_tags(s, i) ==
    Alt(<<Tag(HtmlB, s, i), Tag(HtmlBEnd, s, i), Tag(HtmlI, s, i),
          Tag(HtmlIEnd, s, i), Tag(HtmlU, s, i), Tag(HtmlUEnd, s, i)>>)

vtt_to_ass_alt(s, i) ==
    Alt(<<webvtt_convert_to_ass_tag(s, i), webvtt_discard_tag(s, i),
          TakeUntil(<<"<">>, s, i), RestP(s, i)>>)

webvtt_convert_to_ass_formatting(s) == ManyTillEof(vtt_to_ass_alt, s)

\* an alternative list whose last alternative yields nothing for the rest
vtt_to_srt_alt_mutant(s, i) ==
    Alt(<<webvtt_keep_html_tags(s, i), webvtt_discard_tag(s, i),
          TakeUntil(<<"<">>, s, i), Value(<<>>, RestP(s, i))>>)

vtt_to_srt_alt(s, i) ==
    Alt(<<webvtt_keep_html_tags(s, i), webvtt_discard_tag(s, i),
          TakeUntil(<<"<">>, s, i), RestP(s, i)>>)

webvtt_convert_to_srt_formatting(s) == ManyTillEof(vtt_to_srt_alt, s)

\* substation/ssa/convert.rs
ssa_convert_to_html_tag(s, i) ==
    Alt(<<Value(HtmlB, Tag(AssB1, s, i)),
          Value(HtmlBEnd, Tag(AssB0, s, i)),
          Value(HtmlI, Tag(AssI1, s, i)),
          Value(HtmlIEnd, Tag(AssI0, s, i))>>)

bracket_tag(s, i) == Delimited(<<"{">>, <<"}">>, s, i)

ssa_to_srt_alt(s, i) ==
    Alt(<<ssa_convert_to_html_tag(s, i),
          convert_font_color_tag(s, i),
          Value(<<>>, bracket_tag(s, i)),
          TakeUntil(<<"{">>, s, i),
          RestP(s, i)>>)

ssa_to_srt_formatting(s) == ManyTillEof(ssa_to_srt_alt, s)

ssa_to_vtt_alt(s, i) ==
    Alt(<<ssa_convert_to_html_tag(s, i), Value(<<>>, bracket_tag(s, i)),
          TakeUntil(<<"{">>, s, i), RestP(s, i)>>)

ssa_to_vtt_formatting(s) == ManyTillEof(ssa_to_vtt_alt, s)

\* substation/ass/convert.rs
ass_to_vtt_alt(s, i) ==
    Alt(<<convert_to_html_tag(s, i), discard_tag(s, i),
          TakeUntil(<<"{">>, s, i), RestP(s, i)>>)

ass_convert_to_vtt_formatting(s) == ManyTillEof(ass_to_vtt_alt, s)

----------------------------------------------------------------------------
(* unformatted_text: the tag strippers of the five formats                 *)

\* map(many0(P), join): the pieces that P yields until it fails; the text
\* after them is left unparsed; many0 fails when P succeeds without
\* consuming input
Many0(P(_, _), s) ==
    LET run[i \in 1..(Len(s) + 1)] ==
            Then(P(s, i), LAMBDA r :
            IF r.panic THEN r
            ELSE IF ~r.ok THEN Ok(i, <<>>)
            ELSE IF r.pos = i THEN Fail
            ELSE Then(run[r.pos], LAMBDA t :
                 IF t.ok THEN Ok(t.pos, r.val \o t.val) ELSE t))
    IN  run[1]

\* take_while1(|_| true)
TakeWhile1Any(s, i) == IF i > Len(s) THEN Fail ELSE RestP(s, i)

\* an override block at i whose text holds \p0
parse_drawing_end_tag(s, i) ==
    IF ~Char("{", s, i) THEN Fail ELSE
    Then(TakeUntil(<<"}">>, s, i + 1), LAMBDA ass_tag :
    IF ~ass_tag.ok THEN Fail
    ELSE IF Find(<<BS, "p", "0">>, ass_tag.val, 1) = 0 THEN Fail
    ELSE Ok(ass_tag.pos + 1, Sub(s, i, ass_tag.pos)))

\* an override block at i whose first \p is followed by a digit other than
\* 0, and the text up to and including the next block that holds \p0, or
\* else the rest of the text
discard_drawing_span(s, i) ==
    Then(Delimited(<<"{">>, <<"}">>, s, i), LAMBDA ass_tag :
    IF ~ass_tag.ok THEN Fail ELSE
    Then(Find(<<BS, "p">>, ass_tag.val, 1), LAMBDA p :
    IF p = 0 \/ p + 2 > Len(ass_tag.val)
          \/ ass_tag.val[p + 2] \notin (Digits \ {"0"}) THEN Fail ELSE
    Then({j \in i..Len(s) : parse_drawing_end_tag(s, j).ok}, LAMBDA J :
    IF J = {} THEN Ok(Len(s) + 1, <<>>)
    ELSE Ok(parse_drawing_end_tag(s, Min(J)).pos, <<>>))))

ass_strip_alt(s, i) ==
    Alt(<<discard_drawing_span(s, i), discard_tag(s, i),
          TakeUntil(<<"{">>, s, i), TakeWhile1Any(s, i)>>)

ass_strip_formatting_tags(s) == Many0(ass_strip_alt, s)

ssa_strip_alt(s, i) ==
    Alt(<<Value(<<>>, bracket_tag(s, i)), TakeUntil(<<"{">>, s, i), RestP(s, i)>>)

ssa_strip_formatting_tags(s) == ManyTillEof(ssa_strip_alt, s)

\* subrip/parse.rs
parse_formatting_tag(s, i) == Value(<<>>, Delimited(<<"{">>, <<"}">>, s, i))

parse_html_tag(s, i) == Value(<<>>, Delimited(<<"<">>, <<">">>, s, i))

parse_non_tags_alt(s, i) ==
    Alt(<<parse_html_tag(s, i), parse_formatting_tag(s, i), TakeWhile1Plain(s, i)>>)

parse_non_tags(s) == Many0(parse_non_tags_alt, s)

\* webvtt/convert.rs
discard_html_tags_alt(s, i) ==
    Alt(<<webvtt_discard_tag(s, i), TakeUntil(<<"<">>, s, i), TakeWhile1Any(s, i)>>)

discard_html_tags(s) == Many0(discard_html_tags_alt, s)

\* fn unformatted_text of the event types: the stripped text, or the text
\* itself when the stripper fails
Stripped(r, text) == IF r.ok THEN r.val ELSE text

ass_unformatted_text(text) == Stripped(ass_strip_formatting_tags(text), text)

ssa_unformatted_text(text) == Stripped(ssa_strip_formatting_tags(text), text)

subrip_unformatted_text(text) == Stripped(parse_non_tags(text), text)

webvtt_unformatted_text(text) == Stripped(discard_html_tags(text), text)

microdvd_unformatted_text(text) == Replace(text, <<"|">>, <<NL>>)

----------------------------------------------------------------------------
(* The From impls between the formats: the text of one converted event     *)

MaxPieces == 3
MaxPlain == 4

\* the event text when the converter returned Ok, else the text as it was
Converted(r, text) ==
    IF r.panic THEN Aborted ELSE IF r.ok THEN Returned(r.val) ELSE Returned(text)

\* split_formatting_tags, then the converter on the separated text
SplitThen(F(_), text) ==
    Then(split_formatting_tags(text), LAMBDA separated :
    IF separated.panic THEN Aborted
    ELSE IF ~separated.ok THEN Returned(text)
    ELSE Converted(F(separated.val), text))

unformatted_text(format, text) ==
    CASE format = "ass" -> ass_unformatted_text(text)
      [] format = "ssa" -> ssa_unformatted_text(text)
      [] format = "srt" -> subrip_unformatted_text(text)
      [] format = "vtt" -> webvtt_unformatted_text(text)
      [] format = "microdvd" -> microdvd_unformatted_text(text)

\* impl From<&...> for SubRipSubtitle
SubRipTextFrom(format, t) ==
    CASE format = "ass" ->
             SplitThen(ass_convert_to_srt_formatting, Replace(t, AssNewline, <<NL>>))
      [] format = "ssa" ->
             SplitThen(ssa_to_srt_formatting, Replace(t, AssNewline, <<NL>>))
      [] format = "vtt" -> Converted(webvtt_convert_to_srt_formatting(t), t)
      [] format = "microdvd" -> Returned(Replace(t, <<"|">>, <<NL>>))

\* impl From<&...> for WebVttSubtitle
WebVttTextFrom(format, t) ==
    CASE format = "ass" ->
             SplitThen(ass_convert_to_vtt_formatting, Replace(t, AssNewline, <<NL>>))
      [] format = "ssa" ->
             SplitThen(ssa_to_vtt_formatting, Replace(t, AssNewline, <<NL>>))
      [] format = "srt" -> Converted(subrip_convert_to_vtt_formatting(t), t)
      [] format = "microdvd" -> Returned(Replace(t, <<"|">>, <<NL>>))

\* impl From<&...> for AssSubtitle
AssTextFrom(format, t) ==
    CASE format = "ssa" -> Returned(t)
      [] format = "srt" ->
             Converted(subrip_convert_to_ass_formatting(Replace(t, <<NL>>, AssNewline)),
                       Replace(t, <<NL>>, AssNewline))
      [] format = "vtt" ->
             Converted(webvtt_convert_to_ass_formatting(Replace(t, <<NL>>, AssNewline)),
                       Replace(t, <<NL>>, AssNewline))
      [] format = "microdvd" -> Returned(Replace(t, <<"|">>, AssNewline))

\* impl From<&...> for SsaSubtitle
SsaTextFrom(format, t) ==
    CASE format = "ass" -> Returned(t)
      [] format = "srt" ->
             Converted(subrip_convert_to_ssa_formatting(Replace(t, <<NL>>, AssNewline)),
                       Replace(t, <<NL>>, AssNewline))
      [] format = "vtt" ->
             Converted(webvtt_convert_to_ass_formatting(Replace(t, <<NL>>, AssNewline)),
                       Replace(t, <<NL>>, AssNewline))
      [] format = "microdvd" -> Returned(Replace(t, <<"|">>, AssNewline))

\* impl From<&...> for TimedMicroDvdSubtitle
MicroDvdTextFrom(format, t) ==
    Returned(Replace(unformatted_text(format, t), <<NL>>, <<"|">>))

Formats == {"ass", "ssa", "srt", "vtt", "microdvd"}

SubStationPieces ==
    {AssB1, AssB0, AssI1, AssU1, AssU0, AssColourTag, AssFs, AssNewline,
     <<"a">>, <<" ">>, <<"{">>}

SubRipPieces ==
    {HtmlB, HtmlBEnd, BrI, HtmlU, HtmlUEnd, BrU, BrUEnd, FontTag, HtmlOther,
     <<NL>>, <<"a">>, <<" ">>, <<"<">>, <<"{">>}

WebVttPieces ==
    {HtmlB, HtmlBEnd, HtmlI, HtmlU, HtmlUEnd, HtmlOther, <<NL>>, <<"a">>, <<" ">>, <<"<">>}

MicroDvdPieces == {<<"|">>, <<"a">>, <<" ">>}

PiecesOf(format) ==
    CASE format \in {"ass", "ssa"} -> SubStationPieces
      [] format = "srt" -> SubRipPieces
      [] format = "vtt" -> WebVttPieces
      [] format = "microdvd" -> MicroDvdPieces

\* characters that belong to no tag syntax and to no line-break marker
PlainChars == {<<"a">>, <<" ">>, <<BS>>, <<"&">>, <<"/">>, <<EAcute>>}

\* an event of any format whose text is put together from tags, line-break
\* markers, unclosed delimiters and plain characters, or from plain
\* characters only
InitTexts ==
    /\ mode = "convert"
    /\ pc = "start"
    /\ \E f \in Formats :
          \E toks \in BoundedSeq(PiecesOf(f), MaxPieces) \cup BoundedSeq(PlainChars, MaxPlain) :
              /\ src = [format |-> f, tag |-> "none", payload |-> <<>>, toks |-> toks]
              /\ input = Flatten(toks)
    /\ out = Returned(<<>>)
    /\ Idle

ToSubRip == src.format # "srt" /\ Convert("srt", SubRipTextFrom(src.format, input))

ToWebVtt == src.format # "vtt" /\ Convert("vtt", WebVttTextFrom(src.format, input))

ToAss == src.format # "ass" /\ Convert("ass", AssTextFrom(src.format, input))

ToSsa == src.format # "ssa" /\ Convert("ssa", SsaTextFrom(src.format, input))

ToMicroDvd ==
    src.format # "microdvd" /\ Convert("microdvd", MicroDvdTextFrom(src.format, input))

NextTexts == ToSubRip \/ ToWebVtt \/ ToAss \/ ToSsa \/ ToMicroDvd

SpecTexts == InitTexts /\ [][NextTexts]_vars

----------------------------------------------------------------------------
(* Properties of the conversions between the formats                       *)

TagFormats == {"ass", "ssa", "srt", "vtt"}

PlainText(t) ==
    /\ Range(t) \cap {"{", "}", "<", ">", NL, "|"} = {}
    /\ Find(AssNewline, t, 1) = 0

\* C11: an event text without '{', '}', '<', '>' and without a line-break
\* marker, the empty text included, comes unchanged out of every converter
\* between SubRip, WebVTT, ASS and SSA and out of the ASS/SSA tag splitter.
C11_PlainUnchanged ==
    (pc = "done" /\ src.format \in TagFormats /\ mode \in TagFormats /\ PlainText(input))
        => /\ out = Returned(input)
           /\ src.format \in {"ass", "ssa"}
                 => split_formatting_tags(input) = Ok(Len(input) + 1, input)

C11_Witness ==
    /\ pc = "done"
    /\ src.format = "vtt"
    /\ mode = "srt"
    /\ PlainText(input)
    /\ Len(input) = MaxPlain
    /\ {BS, EAcute} \subseteq Range(input)
    /\ out.text = input

\* the pieces from which the text after piece k is put together
After(toks, k) == Flatten(SubSeq(toks, k + 1, Len(toks)))

\* some piece is an opening delimiter, and no opening delimiter is closed
\* by a later piece
HasUnclosedTag(toks) ==
    /\ \E k \in DOMAIN toks : toks[k] \in {<<"<">>, <<"{">>}
    /\ \A k \in DOMAIN toks :
          /\ toks[k] = <<"<">> => ">" \notin Range(After(toks, k))
          /\ toks[k] = <<"{">> => "}" \notin Range(After(toks, k))

VttToAssExpected(tok) ==
    CASE tok = HtmlB -> AssB1
      [] tok = HtmlBEnd -> AssB0
      [] tok = HtmlI -> AssI1
      [] tok = HtmlIEnd -> AssI0
      [] tok = HtmlU -> AssU1
      [] tok = HtmlUEnd -> AssU0
      [] tok = HtmlOther -> <<>>
      [] tok = <<NL>> -> AssNewline
      [] OTHER -> tok

AssToSrtWithBreaks(tok) == IF tok = AssNewline THEN <<NL>> ELSE AssToSrtExpected(tok)

\* C12: an opening '{' or '<' that has no closing delimiter is copied as it
\* stands and every well-formed recognised tag of the same text is still
\* translated (here: WebVTT to ASS and ASS to SubRip).
C12_UnclosedTagCopied ==
    (pc = "done" /\ HasUnclosedTag(src.toks))
        => /\ (src.format = "vtt" /\ mode = "ass")
                 => out.text = MapTokens(VttToAssExpected, src.toks)
           /\ (src.format = "ass" /\ mode = "srt")
                 => out.text = MapTokens(AssToSrtWithBreaks, src.toks)

\* the line-break marker of a format
Marker(format) ==
    CASE format \in {"ass", "ssa"} -> AssNewline
      [] format \in {"srt", "vtt"} -> <<NL>>
      [] format = "microdvd" -> <<"|">>

Count(m, t) == Cardinality({j \in 1..Len(t) : TagAt(m, t, j)})

\* C13: for every pair of source and target format, each line break of a
\* source text (here: one without tag delimiters) is in the converted text
\* as the marker of the target format, and no marker of the source format
\* is left.
C13_LineBreaks ==
    (pc = "done" /\ Range(input) \cap {"{", "}", "<", ">"} = {})
        => /\ Count(Marker(mode), out.text) = Count(Marker(src.format), input)
           /\ Marker(mode) # Marker(src.format) => Count(Marker(src.format), out.text) = 0

Holds(t, tags) == \E tag \in tags : Count(tag, t) > 0

\* C14: no conversion into SSA writes an underline override: the SSA text
\* converted from SubRip or WebVTT holds neither {\u1} nor {\u0}, and the
\* text converted from SSA holds neither <u> nor </u>.
C14_NoSsaUnderline ==
    pc = "done"
        => /\ (mode = "ssa" /\ src.format \in {"srt", "vtt"})
                 => ~Holds(out.text, {AssU1, AssU0})
           /\ (src.format = "ssa" /\ mode \in {"srt", "vtt"})
                 => ~Holds(out.text, {HtmlU, HtmlUEnd})

\* ---------------------------------------------------------------------
\* Stripping the formatting of one event: TextEvent::unformatted_text
\* reads the stripped text, TextEvent::strip_formatting stores it as the
\* text of the event (input), and may be applied again.
\* ---------------------------------------------------------------------

AssDraw1 == <<"{", BS, "p", "1", "}">>
AssDraw0 == <<"{", BS, "p", "0", "}">>
AssBoldDraw == <<"{", BS, "b", "1", BS, "p", "9", "}">>
AssPosDraw == <<"{", BS, "p", "o", "s", "(", "1", ",", "2", ")", BS, "p", "1", "}">>
HtmlEmpty == <<"<", ">">>

SubStationStripPieces ==
    {AssB1, AssDraw1, AssDraw0, AssBoldDraw, AssPosDraw, <<"m">>, <<" ">>, <<"{">>}

SubRipStripPieces ==
    {HtmlB, HtmlBEnd, BrI, HtmlEmpty, <<"<">>, <<">">>, <<"{">>, <<"}">>,
     <<"a">>, <<" ">>, <<NL>>}

WebVttStripPieces == {HtmlB, HtmlBEnd, <<"<">>, <<">">>, <<"a">>, <<" ">>}

StripPiecesOf(format) ==
    CASE format \in {"ass", "ssa"} -> SubStationStripPieces
      [] format = "srt" -> SubRipStripPieces
      [] format = "vtt" -> WebVttStripPieces
      [] format = "microdvd" -> MicroDvdPieces

InitStrip ==
    /\ mode = "strip"
    /\ pc = "start"
    /\ \E f \in Formats :
          \E toks \in BoundedSeq(StripPiecesOf(f), MaxPieces) :
              /\ src = [format |-> f, tag |-> "none", payload |-> <<>>, toks |-> toks]
              /\ input = Flatten(toks)
    /\ out = Returned(<<>>)
    /\ Idle

\* fn unformatted_text(&self): the event is left as it is
UnformattedText ==
    /\ mode = "strip"
    /\ pc = "start"
    /\ out' = Returned(unformatted_text(src.format, input))
    /\ pc' = "read"
    /\ UNCHANGED <<mode, src, input, lines, queue, events, is_streaming, state>>

\* fn strip_formatting(&mut self): set_text(unformatted_text())
StripFormatting ==
    /\ mode = "strip"
    /\ pc \in {"start", "stripped"}
    /\ input' = unformatted_text(src.format, input)
    /\ pc' = IF pc = "start" THEN "stripped" ELSE "again"
    /\ UNCHANGED <<mode, src, out, lines, queue, events, is_streaming, state>>

NextStrip == UnformattedText \/ StripFormatting

SpecStrip == InitStrip /\ [][NextStrip]_vars

\* the text without its spans: scanning from the left, a '<' is removed with
\* everything up to the first '>' after it and a '{' with everything up to
\* the first '}' after it; an opening delimiter that is never closed stays
StripSpans(t) ==
    LET run[i \in 1..(Len(t) + 1)] ==
            IF i > Len(t) THEN <<>>
            ELSE IF t[i] \notin {"<", "{"} THEN <<t[i]>> \o run[i + 1]
            ELSE LET j == Find(IF t[i] = "<" THEN <<">">> ELSE <<"}">>, t, i + 1)
                 IN  IF j = 0 THEN <<t[i]>> \o run[i + 1] ELSE run[j + 1]
    IN  run[1]

\* C15: strip_formatting on a SubRip event removes every <...> and {...}
\* span, the first closing delimiter ending a span, keeps every other
\* character in order and keeps an opening delimiter that is never closed;
\* stripping a second time changes nothing.
C15_StripSubRip ==
    (mode = "strip" /\ src.format = "srt")
        => /\ pc = "stripped" => input = StripSpans(Flatten(src.toks))
           /\ pc = "again" => input = unformatted_text("srt", Flatten(src.toks))

\* the position of the '}' that closes the override block opened at i, or 0
CloseOf(t, i) == Find(<<"}">>, t, i + 1)

\* the block opened at i and closed at j holds \p and a digit other than 0
OpensDrawing(t, i, j) ==
    \E p \in (i + 1)..(j - 3) :
        TagAt(<<BS, "p">>, t, p) /\ t[p + 2] \in (Digits \ {"0"})

\* the block opened at i and closed at j holds \p0
ClosesDrawing(t, i, j) == \E p \in (i + 1)..(j - 3) : TagAt(<<BS, "p", "0">>, t, p)

\* the text without its override blocks and without its drawing spans: a
\* span runs from a block that opens a drawing to the end of the next block
\* that closes it, or to the end of the text
WithoutDrawings(t) ==
    LET run[i \in 1..(Len(t) + 1)] ==
            IF i > Len(t) THEN <<>>
            ELSE IF t[i] # "{" \/ CloseOf(t, i) = 0 THEN <<t[i]>> \o run[i + 1]
            ELSE IF ~OpensDrawing(t, i, CloseOf(t, i)) THEN run[CloseOf(t, i) + 1]
            ELSE LET E == {k \in (CloseOf(t, i) + 1)..Len(t) :
                              /\ t[k] = "{"
                              /\ CloseOf(t, k) # 0
                              /\ ClosesDrawing(t, k, CloseOf(t, k))}
                 IN  IF E = {} THEN <<>> ELSE run[CloseOf(t, Min(E)) + 1]
    IN  run[1]

\* C16: the unformatted text of an ASS or SSA event (here: one whose braces
\* are all closed) leaves out every drawing span, from a block that holds \pN
\* with N a nonzero digit anywhere in it to the next block that holds \p0 or
\* to the end of the text, removes the other blocks and keeps the rest.
C16_DrawingSpans ==
    (mode = "strip" /\ pc = "read" /\ src.format \in {"ass", "ssa"}
        /\ <<"{">> \notin Range(src.toks))
        => out.text = WithoutDrawings(input)

\* C17: unformatted_text of a MicroDVD event returns the text with each '|'
\* line-break marker kept as '|'.
C17_MicroDvdKeepsBar ==
    (mode = "strip" /\ pc = "read" /\ src.format = "microdvd") => out.text = input

\* a block of lines that is neither a record nor blank
JunkUnit == Unit("other", <<"junk">>)

\* records and junk blocks, with one blank line between two of them
BlocksApart(us) ==
    \A k \in DOMAIN us :
        IF k % 2 = 0 THEN us[k].kind = "blank"
        ELSE us[k].kind = "record" \/ us[k] = JunkUnit

\* the event texts a run of blocks stands for: a record opens an event, any
\* other block is appended to the last event after two line breaks, or is
\* ignored when there is no event yet
RECURSIVE AppendBlocks(_, _)
AppendBlocks(texts, us) ==
    IF us = <<>> THEN texts
    ELSE LET u == Head(us)
             next == IF u.kind = "record"
                     THEN Append(texts, Join(SubSeq(u.lines, 3, Len(u.lines)), <<"\n">>))
                     ELSE IF u.kind = "blank" \/ texts = <<>> THEN texts
                     ELSE [texts EXCEPT ![Len(texts)] =
                              @ \o <<"\n", "\n">> \o Join(u.lines, <<"\n">>)]
         IN  AppendBlocks(next, Tail(us))

\* C18: a block of SubRip input between blank lines that has no number and
\* timing header is appended to the text of the last event after two line
\* breaks, and opens no event, whether a blank line or the end of the input
\* ends it; it is ignored when no event has been parsed yet.
C18_Continuation ==
    (mode = "srt" /\ pc = "parsed" /\ BlocksApart(src))
        => [k \in DOMAIN events |-> events[k].text] = AppendBlocks(<<>>, src)

\* ---------------------------------------------------------------------
\* parse_vtt on texts made of blocks with one blank line before each
\* ---------------------------------------------------------------------

MaxBlocks == 3

BlankUnit == Unit("blank", <<"">>)

VttBlockUnits == (VttUnits \ {BlankUnit}) \cup {Unit("other", <<"NOTE", "two", "lines">>)}

InitVttBlocks ==
    /\ mode = "vtt"
    /\ pc = "header"
    /\ \E head \in VttHeads, blocks \in BoundedSeq(VttBlockUnits, MaxBlocks),
          closed \in BOOLEAN :
          src = <<head>> \o Flatten([k \in DOMAIN blocks |-> <<BlankUnit, blocks[k]>>])
                    \o (IF closed THEN <<BlankUnit>> ELSE <<>>)
    /\ input = UnitsText(src)
    /\ lines = Lines(input)
    /\ queue = <<>>
    /\ events = NoCues
    /\ is_streaming = TRUE
    /\ state = "None"
    /\ out = <<>>

NextVttBlocks == VttHeader \/ VttIteration \/ VttBuild \/ VttRender

SpecVttBlocks == InitVttBlocks /\ [][NextVttBlocks]_vars

\* the first line, a blank line before every block, and no blank block
VttBlocksApart(us) ==
    \A k \in 2..Len(us) : (us[k].kind = "blank") <=> (k % 2 = 0)

\* the text lines of a cue: the lines after its timing line
CueText(u) ==
    LET t == Min({k \in DOMAIN u.lines : Find(Arrow, u.lines[k], 1) # 0})
    IN  Join(SubSeq(u.lines, t + 1, Len(u.lines)), <<"\n">>)

CueUnits(us) == SelectSeq(us, LAMBDA u : u.kind = "cue")

C20_Header ==
    (mode = "vtt" /\ pc = "done")
        => /\ src[1].kind = "titled"
                 => /\ events.header = Some(Chars("title"))
                    /\ TagAt(Chars("WEBVTT - title") \o <<"\n">>, out, 1)
           /\ src[1].kind = "header" => events.header = None

\* ---------------------------------------------------------------------
\* timing.rs: a Moment and its timestamps
\* ---------------------------------------------------------------------

MaxMoment == 70

EdgeMoments == {999, 1000, 59999, 60000, 3599999, 3600000, 3600001, 359999999, 360000000}

\* Moment(i64): From<i64> takes every value, negative ones included
Moments == (0 - MaxMoment)..MaxMoment \cup EdgeMoments \cup {0 - t : t \in EdgeMoments}

InitMoment ==
    /\ mode = "moment"
    /\ pc = "start"
    /\ src \in Moments
    /\ input = <<>>
    /\ out = <<>>
    /\ Idle

Render(format, text) ==
    /\ mode = "moment"
    /\ pc = "start"
    /\ mode' = format
    /\ out' = text
    /\ pc' = "done"
    /\ UNCHANGED <<src, input, lines, queue, events, is_streaming, state>>

AsSrtTimestamp == Render("srt", as_srt_timestamp(src))

AsVttTimestamp == Render("vtt", as_vtt_timestamp(src))

AsSubstationTimestamp == Render("ass", as_substation_timestamp(src))

NextMoment == AsSrtTimestamp \/ AsVttTimestamp \/ AsSubstationTimestamp

SpecMoment == InitMoment /\ [][NextMoment]_vars

\* the fields of a timestamp: the texts between ':', ',' and '.'
RECURSIVE SplitFields(_)
SplitFields(t) ==
    LET J == {k \in DOMAIN t : t[k] \in {":", ",", "."}}
    IN  IF J = {} THEN <<t>>
        ELSE <<Sub(t, 1, Min(J))>> \o SplitFields(Rest(t, Min(J) + 1))

IsNumber(f) == f # <<>> /\ Range(f) \subseteq Digits

FieldVal(f) == NumVal(f, 1, Len(f) + 1, 0)

\* C21: every rendered timestamp has minutes and seconds in 00..59 and a
\* sub-second field in 000..999 (00..99 for ASS/SSA), each zero-padded to its
\* width, under an hours field that takes the rest; for SubRip and WebVTT
\* h*3600000 + m*60000 + s*1000 + ms is the value of the Moment.
C21_TimestampFields ==
    pc = "done" /\ mode \in {"srt", "vtt", "ass"}
        => LET f == SplitFields(out)
               w == IF mode = "ass" THEN 2 ELSE 3
           IN  /\ Len(f) = 4
               /\ \A k \in 1..4 : IsNumber(f[k])
               /\ Len(f[2]) = 2 /\ FieldVal(f[2]) <= 59
               /\ Len(f[3]) = 2 /\ FieldVal(f[3]) <= 59
               /\ Len(f[4]) = w
               /\ Len(f[1]) >= (IF mode = "ass" THEN 1 ELSE 2)
               /\ mode # "ass" =>
                     from_timestamp(FieldVal(f[1]), FieldVal(f[2]), FieldVal(f[3]),
                                    FieldVal(f[4])) = src

\* ---------------------------------------------------------------------
\* microdvd/data.rs: set_framerate and update_framerate
\* ---------------------------------------------------------------------

MaxFrameMs == 60

Rates == {24, 25, 75, 100}

\* (n as f32) * y for an n of at most seven bits: the product n * y.m is
\* exact, and the f32 product is its rounding
F32MulI64(n, y) == Signed((n < 0) # y.neg, RoundRatio(Abs(n) * y.m, 1, y.e))

\* Moment::from(((i64::from(t) as FrameRate) * ratio).round() as i64)
Rescale(t, ratio) == F32RoundToI64(F32MulI64(t, ratio))

\* the document, and in input the rate the caller passes
InitFramerate ==
    /\ mode = "framerate"
    /\ pc = "start"
    /\ \E old \in Rates, a \in 0..MaxFrameMs, b \in 0..MaxFrameMs :
          /\ a <= b
          /\ src = [framerate |-> old,
                    events |-> <<[start |-> a, end |-> b, text |-> Chars("One")]>>]
    /\ events = src
    /\ input \in Rates
    /\ lines = <<>>
    /\ queue = <<>>
    /\ is_streaming = FALSE
    /\ state = "None"
    /\ out = <<>>

\* pub fn set_framerate(&mut self, framerate: FrameRate)
set_framerate ==
    /\ mode = "framerate"
    /\ pc = "start"
    /\ events' = [events EXCEPT !.framerate = input]
    /\ pc' = "set"
    /\ UNCHANGED <<mode, src, input, lines, queue, is_streaming, state, out>>

\* pub fn update_framerate(&mut self, framerate: FrameRate)
update_framerate ==
    /\ mode = "framerate"
    /\ pc = "start"
    /\ LET ratio == Signed(FALSE, RoundRatio(events.framerate, input, 0))
       IN  events' = [framerate |-> input,
                      events |-> [k \in DOMAIN events.events |->
                          [events.events[k] EXCEPT
                              !.start = Rescale(@, ratio), !.end = Rescale(@, ratio)]]]
    /\ pc' = "updated"
    /\ UNCHANGED <<mode, src, input, lines, queue, is_streaming, state, out>>

NextFramerate == set_framerate \/ update_framerate

SpecFramerate == InitFramerate /\ [][NextFramerate]_vars

\* C22: update_framerate keeps the frame of every event: the frame of its
\* time at the old rate is the frame of its new time at the new rate;
\* set_framerate changes the stored rate and no time.
C22_FramePreserved ==
    mode = "framerate"
        => /\ pc = "updated" =>
                 \A k \in DOMAIN events.events :
                     /\ moment_to_frame(events.events[k].start, events.framerate)
                            = moment_to_frame(src.events[k].start, src.framerate)
                     /\ moment_to_frame(events.events[k].end, events.framerate)
                            = moment_to_frame(src.events[k].end, src.framerate)
           /\ pc = "set" => events = [src EXCEPT !.framerate = input]

\* ---------------------------------------------------------------------
\* traits.rs: TimedSubtitle::shift on a document of each format
\* ---------------------------------------------------------------------

MaxShiftEvents == 2

Buckets == {Bucket(EventKinds[k]) : k \in DOMAIN EventKinds}

\* the kinds of event a document of the format stores
KindsOf(format) ==
    IF format \in {"ass", "ssa"} THEN Range(EventKinds) ELSE {"Dialogue"}

TimedEvents(format) ==
    {[kind |-> kind, start |-> a, end |-> a + 500, text |-> <<"x">>] :
        kind \in KindsOf(format), a \in {0, 1000}}

\* the event lists of a document: one list per kind, as the parsers and the
\* builders fill them
DocOf(evs) ==
    [b \in Buckets |-> SelectSeq(evs, LAMBDA e : Bucket(e.kind) = b)]

Deltas == {0 - 1500, 0 - 1, 1, 2000}

InitShift ==
    /\ mode \in Formats
    /\ pc = "start"
    /\ \E evs \in BoundedSeq(TimedEvents(mode), MaxShiftEvents) : src = DocOf(evs)
    /\ events = src
    /\ input = 0
    /\ out = <<>>
    /\ lines = <<>>
    /\ queue = <<>>
    /\ is_streaming = FALSE
    /\ state = "shift"

\* fn events_mut(&mut self): the list `dialogue` of an ASS or SSA document,
\* the one event list of the other formats
events_mut == "dialogue"

\* TimedEvent::shift
shift_event(e, delta) == [e EXCEPT !.start = @ + delta, !.end = @ + delta]

\* TimedSubtitle::shift
shift(doc, delta) ==
    [doc EXCEPT ![events_mut] = [k \in DOMAIN @ |-> shift_event(@[k], delta)]]

Shift ==
    /\ state = "shift"
    /\ pc = "start"
    /\ \E delta \in Deltas :
          /\ input' = delta
          /\ events' = shift(events, delta)
    /\ pc' = "shifted"
    /\ UNCHANGED <<mode, src, lines, queue, is_streaming, state, out>>

\* shift(-delta) after shift(delta)
ShiftBack ==
    /\ state = "shift"
    /\ pc = "shifted"
    /\ events' = shift(events, 0 - input)
    /\ pc' = "back"
    /\ UNCHANGED <<mode, src, input, lines, queue, is_streaming, state, out>>

NextShift == Shift \/ ShiftBack

SpecShift == InitShift /\ [][NextShift]_vars

\* C23: shift(delta) adds delta to the start and to the end of every event
\* the document stores, of every kind, and changes nothing else, so that no
\* duration changes; shift(-delta) after it restores every time.
C23_ShiftAll ==
    state = "shift"
        => /\ pc = "shifted" =>
                 \A b \in Buckets :
                     /\ Len(events[b]) = Len(src[b])
                     /\ \A k \in DOMAIN src[b] :
                           events[b][k] = [src[b][k] EXCEPT !.start = @ + input,
                                                            !.end = @ + input]
           /\ pc = "back" => events = src

\* ---------------------------------------------------------------------
\* The From impls between the documents of the five formats: the list of
\* events. Of a target event the model keeps the fields every format has,
\* start, end and text.
\* ---------------------------------------------------------------------

MaxDocEvents == 2

DocTexts(format) ==
    CASE format \in {"ass", "ssa"} ->
             {<<"x">>, AssB1 \o <<"a">> \o AssNewline, ColourTagText("c", <<"2", EAcute>>)}
      [] format \in {"srt", "vtt"} -> {<<"x">>, HtmlB \o <<"a">>}
      [] format = "microdvd" -> {<<"x">>, <<"a", "|", "b">>}

DocEvents(format) ==
    {[kind |-> kind, start |-> a, end |-> a + 500, text |-> t] :
        kind \in KindsOf(format) \cap {"Dialogue", "Command"}, a \in {0, 1000},
        t \in DocTexts(format)}

InitDocs ==
    /\ mode \in Formats
    /\ pc = "start"
    /\ \E evs \in BoundedSeq(DocEvents(mode), MaxDocEvents) : src = DocOf(evs)
    /\ events = src
    /\ input = "none"
    /\ out = <<>>
    /\ lines = <<>>
    /\ queue = <<>>
    /\ is_streaming = FALSE
    /\ state = "docs"

\* a document that hands out its Command events with its Dialogue events
events_of_mutant(doc) == doc.dialogue \o doc.commands

\* fn events(&self): the list `dialogue` of an ASS or SSA document, the one
\* event list of the other formats
events_of(doc) == doc.dialogue

TextFrom(target, format, t) ==
    CASE target = "srt" -> SubRipTextFrom(format, t)
      [] target = "vtt" -> WebVttTextFrom(format, t)
      [] target = "ass" -> AssTextFrom(format, t)
      [] target = "ssa" -> SsaTextFrom(format, t)
      [] target = "microdvd" -> MicroDvdTextFrom(format, t)

\* fn from(value: &...): value.events().iter().map(..).collect(); a panic in
\* the conversion of one text ends the conversion
DocFrom(target) ==
    /\ state = "docs"
    /\ pc = "start"
    /\ mode # target
    /\ input' = target
    /\ LET texts == [k \in DOMAIN events_of(events) |->
                        TextFrom(target, mode, events_of(events)[k].text)]
       IN  IF \E k \in DOMAIN texts : texts[k].panic
           THEN pc' = "panic" /\ out' = <<>>
           ELSE /\ pc' = "done"
                /\ out' = [k \in DOMAIN texts |->
                              [start |-> events_of(events)[k].start,
                               end |-> events_of(events)[k].end,
                               text |-> texts[k].text]]
    /\ UNCHANGED <<mode, src, events, lines, queue, is_streaming, state>>

SubRipFrom == DocFrom("srt")

WebVttFrom == DocFrom("vtt")

AssFrom == DocFrom("ass")

SsaFrom == DocFrom("ssa")

MicroDvdFrom == DocFrom("microdvd")

NextDocs == SubRipFrom \/ WebVttFrom \/ AssFrom \/ SsaFrom \/ MicroDvdFrom

SpecDocs == InitDocs /\ [][NextDocs]_vars

\* C24: a conversion between two formats yields one target event for each
\* event of the source event list (for each Dialogue event of an ASS or SSA
\* source), in the same order and with the same start and end, and leaves
\* the source document as it was.
C24_EventsCopied ==
    (state = "docs" /\ pc = "done")
        => /\ Len(out) = Len(src.dialogue)
           /\ \A k \in DOMAIN out :
                 out[k].start = src.dialogue[k].start /\ out[k].end = src.dialogue[k].end
           /\ events = src

C24_Witness ==
    /\ state = "docs"
    /\ pc = "done"
    /\ mode = "ass"
    /\ input = "microdvd"
    /\ Len(src.commands) = 1
    /\ Len(out) = 1
    /\ out[1].start = 1000
    /\ out[1].text = <<"a", BS, "N">>

----------------------------------------------------------------------------
(* Rendering of ASS and SSA documents: substation/ass/data.rs,             *)
(* substation/ssa/data.rs, substation/common/data.rs                       *)

\* the script-info fields in the order Display writes them
ScriptInfoOrder(dialect) ==
    <<"Title", "Original Script", "Original Translation", "Original Editing",
      "Original Timing", "Synch Point", "Script Updated By", "Update Details",
      "ScriptType", "Collisions", "PlayResY", "PlayResX", "PlayDepth", "Timer">>
    \o (IF dialect = "ass" THEN <<"WrapStyle">> ELSE <<>>)

\* the label Display writes in front of a script-info field
ScriptInfoLabel(k) == IF k = "ScriptType" THEN Chars("Script Type") ELSE Chars(k)

\* impl Display for AssScriptInfo, impl Display for SsaScriptInfo
ScriptInfoDisplay(dialect, info) ==
    Chars("[Script Info]")
        \o Flatten([j \in DOMAIN ScriptInfoOrder(dialect) |->
                LET k == ScriptInfoOrder(dialect)[j]
                IN  IF info[k].some
                    THEN <<"\n">> \o ScriptInfoLabel(k) \o Chars(": ") \o info[k].val
                    ELSE <<>>])

\* AssScriptInfo::default, SsaScriptInfo::default
DefaultScriptInfo(dialect) ==
    [k \in ScriptInfoKeys(dialect) |->
        IF k = "ScriptType"
        THEN Some(IF dialect = "ass" THEN Chars("v4.00+") ELSE Chars("v4.00"))
        ELSE None]

\* bool as Display writes it
BoolDisplay(b) == IF b THEN Chars("true") ELSE Chars("false")

\* f64 as Display writes it, for the decimal texts without exponent that the
\* style lines of the model hold: no sign for plus, no trailing zeros of the
\* fraction, no bare decimal point
RECURSIVE TrimZeros(_)
TrimZeros(t) ==
    IF t # <<>> /\ t[Len(t)] = "0" THEN TrimZeros(SubSeq(t, 1, Len(t) - 1)) ELSE t

F64Display(t) ==
    LET u == IF t # <<>> /\ t[1] = "+" THEN Tail(t) ELSE t
        d == Find(<<".">>, u, 1)
        f == IF d = 0 THEN <<>> ELSE TrimZeros(Rest(u, d + 1))
    IN  IF d = 0 THEN u
        ELSE Sub(u, 1, d) \o (IF f = <<>> THEN <<>> ELSE <<".">> \o f)

\* impl Display for AssStyle, impl Display for SsaStyle
StyleDisplay(dialect, st) ==
    Join([k \in DOMAIN StyleNames(dialect) |->
            LET v == st[StyleNames(dialect)[k]]
                p == StyleFields(dialect)[k]
            IN  CASE p = "text" -> v
                  [] p = "i64" -> IntToText(v)
                  [] p = "reverse_bool" -> BoolDisplay(v)
                  [] p = "double" -> F64Display(v)],
         <<",">>)

\* Option::unwrap_or_default
UnwrapOrDefault(o) == IF o.some THEN o.val ELSE <<>>

\* impl Display for AssEvent, impl Display for SsaEvent
EventDisplay(dialect, e) ==
    Chars(e.kind) \o Chars(": ")
        \o (IF dialect = "ass" THEN IntToText(e.layer)
            ELSE Chars("Marked=") \o (IF e.marked THEN <<"1">> ELSE <<"0">>))
        \o <<",">> \o as_substation_timestamp(e.start)
        \o <<",">> \o as_substation_timestamp(e.end)
        \o <<",">> \o UnwrapOrDefault(e.style)
        \o <<",">> \o UnwrapOrDefault(e.name)
        \o <<",">> \o IntToText(e.margin_l)
        \o <<",">> \o IntToText(e.margin_r)
        \o <<",">> \o IntToText(e.margin_v)
        \o <<",">> \o UnwrapOrDefault(e.effect)
        \o <<",">> \o e.text

\* impl Display for SubStationFont, impl Display for SubStationGraphic
EmbeddedDisplay(label, name, data) ==
    label \o <<" ">> \o name \o <<"\n">> \o data \o <<"\n">>

StylesFormatLine(dialect) ==
    IF dialect = "ass"
    THEN Chars("Format: Name, Fontname, Fontsize, PrimaryColour, SecondaryColour, OutlineColour, BackColour, Bold, Italic, Underline, StrikeOut, ScaleX, ScaleY, Spacing, Angle, BorderStyle, Outline, Shadow, Alignment, MarginL, MarginR, MarginV, Encoding")
    ELSE Chars("Format: Name, Fontname, Fontsize, PrimaryColour, SecondaryColour, TertiaryColour, BackColour, Bold, Italic, BorderStyle, Outline, Shadow, Alignment, MarginL, MarginR, MarginV, AlphaLevel, Encoding")

EventsFormatLine(dialect) ==
    IF dialect = "ass"
    THEN Chars("Format: Layer, Start, End, Style, Actor, MarginL, MarginR, MarginV, Effect, Text")
    ELSE Chars("Format: Marked, Start, End, Style, Name, MarginL, MarginR, MarginV, Effect, Text")

\* the event lists in the order Display writes them
AllEvents(doc) ==
    doc.dialogue \o doc.pictures \o doc.sounds \o doc.movies \o doc.commands

\* impl Display for AssSubtitle, impl Display for SsaSubtitle
SubStationDisplay(dialect, doc) ==
    ScriptInfoDisplay(dialect, doc.script_info) \o <<"\n", "\n">>
        \o (IF doc.styles = <<>> THEN <<>>
            ELSE (IF dialect = "ass" THEN Chars("[V4+ Styles]") ELSE Chars("[V4 Styles]"))
                    \o <<"\n">> \o StylesFormatLine(dialect) \o <<"\n">>
                    \o Flatten([k \in DOMAIN doc.styles |->
                            StyleDisplay(dialect, doc.styles[k]) \o <<"\n">>])
                    \o <<"\n">>)
        \o (IF doc.fonts = <<>> THEN <<>>
            ELSE <<"\n">> \o Flatten([k \in DOMAIN doc.fonts |->
                    EmbeddedDisplay(Chars("fontname:"), doc.fonts[k].fontname,
                                    doc.fonts[k].data) \o <<"\n">>]))
        \o (IF doc.graphics = <<>> THEN <<>>
            ELSE <<"\n">> \o Flatten([k \in DOMAIN doc.graphics |->
                    EmbeddedDisplay(Chars("filename:"), doc.graphics[k].filename,
                                    doc.graphics[k].data) \o <<"\n">>]))
        \o (IF doc.dialogue = <<>> THEN <<>>
            ELSE Chars("[Events]") \o <<"\n">> \o EventsFormatLine(dialect) \o <<"\n">>
                    \o Flatten([k \in DOMAIN AllEvents(doc) |->
                            EventDisplay(dialect, AllEvents(doc)[k]) \o <<"\n">>]))

----------------------------------------------------------------------------
(* Rendering a document, detecting the format of the rendered text and     *)
(* parsing it again                                                        *)

MaxRenderEvents == 2

\* a script info as parse_ass and parse_ssa build it from a file
ParsedScriptInfo(dialect) ==
    build_script_info(dialect,
        {[key |-> Chars("Title"), value |-> Chars("A")],
         [key |-> Chars("ScriptType"),
          value |-> IF dialect = "ass" THEN Chars("v4.00+") ELSE Chars("v4.00")],
         [key |-> Chars("PlayResX"), value |-> Chars("640")]})

\* a style as parse_style_line reads it from a file
ParsedStyle(dialect) == parse_style_line(dialect, Preamble(dialect)[4].text, 1).val.val

SubStationEvent(dialect, kind, first, start, end, style, name, margin, text) ==
    [kind |-> kind, start |-> start, end |-> end, style |-> style, name |-> name,
     margin_l |-> margin, margin_r |-> 2 * margin, margin_v |-> 0 - margin,
     effect |-> Some(<<>>), text |-> text]
    @@ First(dialect, first)

RenderEvents(dialect) ==
    {SubStationEvent(dialect, "Dialogue", 0, 1000, 3400, Some(Chars("Default")),
                     Some(<<>>), 0, Chars("Oh, yeah.")),
     SubStationEvent(dialect, "Dialogue", 1, 1005, 3723456, None,
                     Some(Chars("Bob")), 3, Chars(" x")),
     SubStationEvent(dialect, "Command", 0, 0, 500, Some(<<>>), Some(<<>>), 0,
                     Chars("ls")),
     SubStationEvent(dialect, "Picture", 0, 2000, 2500, Some(<<>>), Some(<<>>), 0,
                     Chars("a.png"))}

SubStationDocs(dialect) ==
    {[script_info |-> info, styles |-> styles, fonts |-> <<>>, graphics |-> <<>>]
        @@ DocOf(evs) :
        info \in {DefaultScriptInfo(dialect), ParsedScriptInfo(dialect)},
        styles \in {<<>>, <<ParsedStyle(dialect)>>},
        evs \in BoundedSeq(RenderEvents(dialect), MaxRenderEvents) \ {<<>>}}

SubRipDocs ==
    BoundedSeq({[line_number |-> 1, start |-> 1000, end |-> 3400,
                 coordinates |-> None, text |-> Chars("Hi")],
                [line_number |-> 7, start |-> 3723456, end |-> 3725000,
                 coordinates |-> Some(Chars("X1:1")), text |-> Chars("<b>x</b>")]},
               MaxRenderEvents) \ {<<>>}

WebVttDocs ==
    {[header |-> header, styles |-> <<>>, regions |-> <<>>, cues |-> cues] :
        header \in {None, Some(Chars("A"))},
        cues \in BoundedSeq({[identifier |-> None, start |-> 1000, end |-> 3400,
                              settings |-> None, text |-> Chars("Hi")],
                             [identifier |-> Some(Chars("7")), start |-> 3723456,
                              end |-> 3725000, settings |-> Some(Chars("align:start")),
                              text |-> Chars("<b>x</b>")]},
                            MaxRenderEvents) \ {<<>>}}

MicroDvdDocs ==
    {[framerate |-> DefaultFramerate, events |-> evs] :
        evs \in BoundedSeq({[start |-> 1000, end |-> 3400, text |-> Chars("Hi")],
                            [start |-> 0, end |-> 500, text |-> Chars("a|b")]},
                           MaxRenderEvents) \ {<<>>}}

RenderDocs(format) ==
    CASE format \in {"ass", "ssa"} -> SubStationDocs(format)
      [] format = "srt" -> SubRipDocs
      [] format = "vtt" -> WebVttDocs
      [] format = "microdvd" -> MicroDvdDocs

InitRender ==
    /\ mode \in Formats
    /\ pc = "built"
    /\ src \in RenderDocs(mode)
    /\ input = <<>>
    /\ lines = <<>>
    /\ events = NoEvents
    /\ queue = <<>>
    /\ is_streaming = FALSE
    /\ state = "None"
    /\ out = <<>>

\* to_string of the document
RenderDocument ==
    /\ pc = "built"
    /\ input' = CASE mode \in {"ass", "ssa"} -> SubStationDisplay(mode, src)
                  [] mode = "srt" -> SubRipDisplay(src)
                  [] mode = "vtt" -> WebVttDisplay(src)
                  [] mode = "microdvd" -> MicroDvdDisplay(src.events, src.framerate)
    /\ pc' = "rendered"
    /\ UNCHANGED <<mode, src, lines, queue, events, is_streaming, state, out>>

\* detect_format_from_str on the rendered text
DetectRendered ==
    /\ pc = "rendered"
    /\ queue' = <<detect_format_from_str(input)>>
    /\ pc' = "detected"
    /\ UNCHANGED <<mode, src, input, lines, events, is_streaming, state, out>>

\* AssSubtitle::from_str, SsaSubtitle::from_str: the start of parse_ass and
\* parse_ssa on the rendered text
FromStr ==
    /\ mode \in {"ass", "ssa"}
    /\ pc = "rendered"
    /\ lines' = Lines(input)
    /\ events' = NoEvents
    /\ state' = "None"
    /\ pc' = "loop"
    /\ UNCHANGED <<mode, src, input, queue, is_streaming, out>>

NextRender ==
    \/ RenderDocument
    \/ DetectRendered
    \/ FromStr
    \/ SubStationLine
    \/ SubStationBuild

SpecRender == InitRender /\ [][NextRender]_vars

\* the name detection gives to a format
FormatName(format) ==
    CASE format = "ass" -> "Ass"
      [] format = "ssa" -> "Ssa"
      [] format = "srt" -> "SubRip"
      [] format = "vtt" -> "WebVtt"
      [] format = "microdvd" -> "MicroDvd"

\* C25: the rendered text of a document that holds at least one event is
\* detected as the format of the document, for each of the five formats; a
\* rendered SSA document is detected as SSA.
C25_RenderDetect ==
    pc = "detected" => queue = <<FormatName(mode)>>

----------------------------------------------------------------------------
(* The section a record line is parsed under                               *)

\* a line of the form [...], whatever stands between the brackets
IsBracketed(text) ==
    LET a == Multispace0(text, 1)
    IN  Char("[", text, a) /\ Find(<<"]">>, text, a) # 0

\* the section the nearest bracketed line before line k names: "None" before
\* the first one, "Unknown" when its name is not a recognised one
NearestSection(ls, k) ==
    LET H == {j \in 1..(k - 1) : IsBracketed(ls[j].text)}
        n == CHOOSE j \in H : \A h \in H : h <= j
    IN  IF H = {} THEN "None"
        ELSE IF ls[n].section = "" THEN "Unknown"
        ELSE ls[n].section

\* the events of one kind among the well-formed event lines whose nearest
\* bracketed line is the [Events] header
RecordsUnderEvents(ls, kind) ==
    LET idx == SelectSeq([k \in DOMAIN ls |-> k],
                         LAMBDA k : /\ ls[k].good
                                    /\ NearestSection(ls, k) = "Events"
                                    /\ ls[k].rec.kind = kind)
    IN  [j \in DOMAIN idx |-> ls[idx[j]].rec]

\* C26: in ASS and SSA parsing an event line contributes to the document only
\* when the nearest bracketed section header line before it is the recognised
\* [Events] header; the lines after an unrecognised [Section] header are
\* ignored and not parsed under the section that was active before it.
C26_NearestHeader ==
    (mode \in {"ass", "ssa"} /\ pc = "done") =>
        \A k \in DOMAIN EventKinds :
            out[Bucket(EventKinds[k])] = RecordsUnderEvents(src, EventKinds[k])

\* C27: parsing the rendered text of an ASS or SSA document recovers its
\* header metadata: every script-info field that was set has the same value,
\* and there are as many styles, with the same names and the same bold and
\* italic flags.
C27_HeaderRecovered ==
    (mode \in {"ass", "ssa"} /\ pc = "done") =>
        /\ \A k \in ScriptInfoKeys(mode) :
              src.script_info[k].some => out.script_info[k] = src.script_info[k]
        /\ Len(out.styles) = Len(src.styles)
        /\ \A k \in DOMAIN src.styles :
              /\ out.styles[k].name = src.styles[k].name
              /\ out.styles[k].bold = src.styles[k].bold
              /\ out.styles[k].italic = src.styles[k].italic

\* a time rounded down to a multiple of 10 ms
Floor10(t) == t - (t % 10)

\* C28: for an ASS document whose Dialogue events have non-negative times and
\* texts without newline characters, parsing the rendered text yields as many
\* Dialogue events, in the same order, each with the same layer, margins and
\* text, and with start and end rounded down to a multiple of 10 ms.
C28_DialogueRoundTrip ==
    (mode = "ass" /\ pc = "done") =>
        /\ Len(out.dialogue) = Len(src.dialogue)
        /\ \A k \in DOMAIN src.dialogue :
              /\ out.dialogue[k].layer = src.dialogue[k].layer
              /\ out.dialogue[k].margin_l = src.dialogue[k].margin_l
              /\ out.dialogue[k].margin_r = src.dialogue[k].margin_r
              /\ out.dialogue[k].margin_v = src.dialogue[k].margin_v
              /\ out.dialogue[k].text = src.dialogue[k].text
              /\ out.dialogue[k].start = Floor10(src.dialogue[k].start)
              /\ out.dialogue[k].end = Floor10(src.dialogue[k].end)

\* C30: rendering an ASS or SSA document writes every stored event of every
\* kind under an [Events] header, also when the document holds no Dialogue
\* event: parsing the rendered text yields as many events of each kind as
\* the document holds.
C30_AllKindsRendered ==
    (mode \in {"ass", "ssa"} /\ pc = "done") =>
        \A b \in Buckets : Len(out[b]) = Len(src[b])

----------------------------------------------------------------------------
(* A WebVTT cue parsed, rendered and parsed again                          *)

CueStarts == {0, 1000, 3723456}

CueLengths == {500, 2000}

CueSettings == {<<>>, Chars("align:start"), Chars("line:0 position:50%")}

\* the blanks between the end timestamp and the settings
CueGaps == {<<" ">>, <<" ", " ">>, <<"\t">>}

CueIdentifiers == {<<>>, <<"7", "\n">>}

InitCue ==
    /\ mode = "cue"
    /\ pc = "text"
    /\ \E a \in CueStarts, d \in CueLengths, st \in CueSettings, gap \in CueGaps,
          id \in CueIdentifiers :
          /\ src = [start |-> a, end |-> a + d, settings |-> st]
          /\ input = id \o as_vtt_timestamp(a) \o <<" ">> \o Arrow \o <<" ">>
                        \o as_vtt_timestamp(a + d)
                        \o (IF st = <<>> THEN <<>> ELSE gap \o st)
                        \o <<"\n">> \o Chars("Hi") \o <<"\n">>
    /\ lines = <<>>
    /\ queue = <<>>
    /\ events = <<>>
    /\ is_streaming = FALSE
    /\ state = "None"
    /\ out = <<>>

\* parse_block on the text of the cue, as parse_vtt calls it
ParseCue ==
    /\ mode = "cue"
    /\ pc = "text"
    /\ LET r == webvtt_parse_block(input, 1)
       IN  IF r.ok /\ r.val.block = "Cue"
           THEN events' = <<r.val.val>> /\ pc' = "parsed"
           ELSE events' = events /\ pc' = "skipped"
    /\ UNCHANGED <<mode, src, input, lines, queue, is_streaming, state, out>>

\* Display for WebVttCue, with the line break that Display for WebVttSubtitle
\* writes after it
RenderCue ==
    /\ mode = "cue"
    /\ pc = "parsed"
    /\ out' = WebVttCueDisplay(events[1]) \o <<"\n">>
    /\ pc' = "rendered"
    /\ UNCHANGED <<mode, src, input, lines, queue, events, is_streaming, state>>

\* parse_block on the rendered cue
ReparseCue ==
    /\ mode = "cue"
    /\ pc = "rendered"
    /\ LET r == webvtt_parse_block(out, 1)
       IN  IF r.ok /\ r.val.block = "Cue"
           THEN queue' = <<r.val.val>> /\ pc' = "reparsed"
           ELSE queue' = queue /\ pc' = "lost"
    /\ UNCHANGED <<mode, src, input, lines, events, is_streaming, state, out>>

NextCue ==
    \/ ParseCue
    \/ RenderCue
    \/ ReparseCue

SpecCue == InitCue /\ [][NextCue]_vars

\* C29: the settings of a WebVTT cue survive parse then render: the timing
\* line is parsed into the settings string, the cue is rendered with the
\* settings separated from the end timestamp by a space, and parsing the
\* rendered text yields the same start, end and settings.
C29_SettingsSurvive ==
    /\ pc \notin {"skipped", "lost"}
    /\ pc \in {"parsed", "rendered", "reparsed"} =>
          /\ events[1].start = src.start
          /\ events[1].end = src.end
          /\ events[1].settings = Some(src.settings)
    /\ (pc \in {"rendered", "reparsed"} /\ src.settings # <<>>) =>
          Find(as_vtt_timestamp(src.end) \o <<" ">> \o src.settings, out, 1) # 0
    /\ pc = "reparsed" =>
          /\ queue[1].start = events[1].start
          /\ queue[1].end = events[1].end
          /\ queue[1].settings = events[1].settings

====
